---- MODULE Spec2Model ----
(***************************************************************************)
(* A model of the wind-lang tree-walking interpreter: the interpret loop   *)
(* of Interpreter (src/src/interpreter.rs), calls of LiteralType           *)
(* (src/src/types.rs), the scope stack of EnvironmentManger                *)
(* (src/src/interpreter/environment.rs) and the native functions           *)
(* (src/src/interpreter/stdlib.rs).                                        *)
(*                                                                         *)
(* execute and evaluate are recursive functions in the source and are      *)
(* recursive operators here.  They thread the interpreter state `st`       *)
(* (scope stack, index, stdout, stdin, history of scope operations) and    *)
(* return a result record: the state reached plus the outcome              *)
(*   k = "ok"      evaluate returned Ok(v)                                  *)
(*   k = "none"    execute returned Ok(None)                                *)
(*   k = "return"  execute returned Ok(Some(v))                             *)
(*   k = "err"     Err(RuntimeError{message})                               *)
(*   k = "panic"   the Rust code panicked (index out of bounds, unwrap)     *)
(* One step of the state machine is one iteration of the loop of           *)
(* Interpreter::interpret over the top-level statements.                   *)
(***************************************************************************)
EXTENDS Integers, Sequences, FiniteSets, TLC

VARIABLES
    source,        \* the text of the program file
    scanner,       \* the Scanner of main: source, tokens, start, current, line
    parser,        \* the Parser of main: tokens, current
    statements,    \* the parsed program handed to Interpreter::interpret
    pc,            \* position of interpret's for loop in statements (1-based)
    environments,  \* EnvironmentManger.environments, innermost scope first
    index,         \* EnvironmentManger.index
    stdout,        \* everything written to standard output so far
    stdin,         \* the lines not yet read from standard input
    stderr,        \* the diagnostics written by WindError::report
    status,        \* "scanning", "parsing", "running" (interpret), "done" (exit 0),
                   \* "exit1" and "exit65" (report), "panic"
    history        \* history variable: the scope operations performed so far

vars ==
    <<source, scanner, parser, statements, pc, environments, index, stdout, stdin, stderr,
      status, history>>

---------------------------------------------------------------------------
(* Bounds of the model.                                                    *)

\* largest number of iterations a range loop of the checked programs makes
MaxSpan == 3
\* deepest block nesting of the generated scope programs
MaxDepth == 2
\* most arguments a call of the arity programs passes
MaxArgs == 3
\* the numerals -MaxNumeral .. MaxNumeral are the strings int() can parse
MaxNumeral == 20

---------------------------------------------------------------------------
(* Values: LiteralType.  A Number is an f32; the model keeps it as a       *)
(* reduced fraction num/den (den > 0), or den = 0 for the non-finite       *)
(* values: num = 1 is inf, num = -1 is -inf, num = 0 is NaN.               *)

Nil == [t |-> "Nil"]
Number(n) == [t |-> "Number", num |-> n, den |-> 1]
Str(s) == [t |-> "String", s |-> s]
Bool(b) == [t |-> "Bool", b |-> b]
Function(deceleration) == [t |-> "Function", deceleration |-> deceleration]
NativeFunction(name, arity) == [t |-> "NativeFunction", name |-> name, arity |-> arity]

Abs(n) == IF n < 0 THEN -n ELSE n
Sign(n) == IF n < 0 THEN -1 ELSE IF n > 0 THEN 1 ELSE 0

RECURSIVE GCD(_, _)
GCD(a, b) == IF b = 0 THEN a ELSE GCD(b, a % b)

\* the fraction n/d in lowest terms with a positive denominator (d # 0)
Frac(n, d) ==
    LET g == GCD(Abs(n), Abs(d))
        sg == IF d < 0 THEN -1 ELSE 1
    IN [t |-> "Number", num |-> sg * (n \div g), den |-> Abs(d) \div g]

Inf(sign) == [t |-> "Number", num |-> sign, den |-> 0]
NaN == [t |-> "Number", num |-> 0, den |-> 0]
IsFinite(x) == x.den # 0
IsNaN(x) == x.den = 0 /\ x.num = 0

\* f32 has a 24 bit significand: every integer up to 2^24 is a value of the
\* type, above it only every second one (up to 2^25).
F32Exact == 16777216

\* round an integer to the nearest f32, ties to the even significand
RoundF32(n) ==
    IF Abs(n) <= F32Exact THEN n
    ELSE LET a == Abs(n)
             lo == (a \div 2) * 2
         IN  Sign(n) * (IF a = lo THEN a
                        ELSE IF (lo \div 2) % 2 = 0 THEN lo ELSE lo + 2)

\* the f32 nearest to a fraction; fractions below 2^24 are kept exact
F32(x) == IF x.den = 1 THEN Number(RoundF32(x.num)) ELSE x

FNeg(a) == [a EXCEPT !.num = -a.num]

FAdd(a, b) ==
    IF IsNaN(a) \/ IsNaN(b) THEN NaN
    ELSE IF ~IsFinite(a) /\ ~IsFinite(b) THEN (IF a.num = b.num THEN a ELSE NaN)
    ELSE IF ~IsFinite(a) THEN a
    ELSE IF ~IsFinite(b) THEN b
    ELSE F32(Frac(a.num * b.den + b.num * a.den, a.den * b.den))

FSub(a, b) == FAdd(a, FNeg(b))

FMul(a, b) ==
    IF IsNaN(a) \/ IsNaN(b) THEN NaN
    ELSE IF ~IsFinite(a) \/ ~IsFinite(b)
         THEN (IF a.num = 0 \/ b.num = 0 THEN NaN ELSE Inf(Sign(a.num) * Sign(b.num)))
    ELSE F32(Frac(a.num * b.num, a.den * b.den))

\* the model has one zero: the sign of a zero divisor counts as positive
FDiv(a, b) ==
    IF IsNaN(a) \/ IsNaN(b) THEN NaN
    ELSE IF ~IsFinite(a) /\ ~IsFinite(b) THEN NaN
    ELSE IF ~IsFinite(a) THEN Inf(a.num * (IF b.num < 0 THEN -1 ELSE 1))
    ELSE IF ~IsFinite(b) THEN Number(0)
    ELSE IF b.num = 0 THEN (IF a.num = 0 THEN NaN ELSE Inf(Sign(a.num)))
    ELSE F32(Frac(a.num * b.den, a.den * b.num))

\* Rust's % on floats is the remainder of the truncated division (fmod)
FRem(a, b) ==
    IF IsNaN(a) \/ IsNaN(b) \/ ~IsFinite(a) THEN NaN
    ELSE IF ~IsFinite(b) THEN a
    ELSE IF b.num = 0 THEN NaN
    ELSE LET x == a.num * b.den
             y == b.num * a.den
         IN  Frac(Sign(x) * (Abs(x) % Abs(y)), a.den * b.den)

FLess(a, b) ==
    IF IsNaN(a) \/ IsNaN(b) THEN FALSE
    ELSE IF ~IsFinite(a) THEN a.num = -1 /\ ~(b.den = 0 /\ b.num = -1)
    ELSE IF ~IsFinite(b) THEN b.num = 1
    ELSE a.num * b.den < b.num * a.den

FEq(a, b) == ~IsNaN(a) /\ ~IsNaN(b) /\ a.num = b.num /\ a.den = b.den

I32Max == 2147483647
I32Min == -2147483647 - 1

\* mutant of as_i32: the integer below (floor)
as_i32_floor(x) ==
    IF IsNaN(x) THEN 0
    ELSE IF ~IsFinite(x) THEN (IF x.num > 0 THEN I32Max ELSE I32Min)
    ELSE x.num \div x.den

\* `x as i32`: truncation toward zero, saturating, NaN to 0
as_i32(x) ==
    IF IsNaN(x) THEN 0
    ELSE IF ~IsFinite(x) THEN (IF x.num > 0 THEN I32Max ELSE I32Min)
    ELSE Sign(x.num) * (Abs(x.num) \div x.den)

\* `i as f32`
as_f32(i) == Number(RoundF32(i))

\* the decimal digits of the fraction r/d, 0 <= r < d (a finite expansion
\* for the dyadic fractions of the model; cut after 9 digits)
RECURSIVE FracDigits(_, _, _)
FracDigits(r, d, k) ==
    IF r = 0 \/ k = 0 THEN ""
    ELSE ToString((r * 10) \div d) \o FracDigits((r * 10) % d, d, k - 1)

\* impl Display for LiteralType
Display(value) ==
    CASE value.t = "Nil" -> "nil"
      [] value.t = "Number" ->
            IF value.den = 0
            THEN (IF value.num = 0 THEN "NaN" ELSE IF value.num > 0 THEN "inf" ELSE "-inf")
            ELSE IF value.den = 1 THEN ToString(value.num)
            ELSE (IF value.num < 0 THEN "-" ELSE "")
                 \o ToString(Abs(value.num) \div value.den) \o "."
                 \o FracDigits(Abs(value.num) % value.den, value.den, 9)
      [] value.t = "String" -> value.s
      [] value.t = "Bool" -> IF value.b THEN "true" ELSE "false"
      [] value.t = "Function" -> "<fn " \o value.deceleration.name \o ">"
      [] value.t = "NativeFunction" -> "<fn " \o value.name \o ">"

---------------------------------------------------------------------------
(* Results of execute, evaluate and the scope operations.                  *)

Ok(st, v) == [st |-> st, k |-> "ok", v |-> v, message |-> ""]
None(st) == [st |-> st, k |-> "none", v |-> Nil, message |-> ""]
Some(st, v) == [st |-> st, k |-> "return", v |-> v, message |-> ""]
\* Err(RuntimeError::new(token, message))
RuntimeError(st, message) == [st |-> st, k |-> "err", v |-> Nil, message |-> message]
Panic(st, message) == [st |-> st, k |-> "panic", v |-> Nil, message |-> message]
\* the outcomes the ? operator (and a panic) pass straight up
Failed(r) == r.k \in {"err", "panic"}

---------------------------------------------------------------------------
(* The scope stack: EnvironmentManger.  environments[1] here is            *)
(* environments[0] of the source, the innermost scope.                     *)

\* Environment::new(): no binding
NewEnvironment == [n \in {} |-> Nil]

\* FnvHashMap::insert
Insert(values, name, value) ==
    [n \in DOMAIN values \cup {name} |-> IF n = name THEN value ELSE values[n]]

\* mutant of define: a name some scope binds already is rebound there
define_where_bound(st, name, value) ==
    IF \E j \in 1 .. Len(st.environments) : name \in DOMAIN st.environments[j]
    THEN LET j == CHOOSE j \in 1 .. Len(st.environments) :
                     /\ name \in DOMAIN st.environments[j]
                     /\ \A k \in 1 .. j - 1 : name \notin DOMAIN st.environments[k]
         IN  [st EXCEPT !.environments[j] = Insert(@, name, value)]
    ELSE [st EXCEPT !.environments[1] = Insert(@, name, value)]

define(st, name, value) ==
    [st EXCEPT !.environments[1] = Insert(@, name, value)]

\* mutant of assign: the chain is not walked, the innermost scope is written
assign_innermost(st, name, value) ==
    Ok([st EXCEPT !.environments[st.index + 1] = Insert(@, name, value)], Nil)

RECURSIVE assign(_, _, _)
assign(st, name, value) ==
    IF st.index >= Len(st.environments)
    THEN Panic(st, "index out of bounds")
    ELSE IF name \in DOMAIN st.environments[st.index + 1]
    THEN Ok([st EXCEPT !.environments[st.index + 1] = Insert(@, name, value)], Nil)
    ELSE IF st.index < Len(st.environments)
    THEN LET r == assign([st EXCEPT !.index = @ + 1], name, value)
         IN  IF Failed(r) THEN r ELSE [r EXCEPT !.st.index = @ - 1]
    ELSE RuntimeError(st, "'" \o name \o "' variable undefined")

\* mutant of get: the chain is walked from the global scope inward
get_outermost(st, name) ==
    IF \E j \in 1 .. Len(st.environments) : name \in DOMAIN st.environments[j]
    THEN LET j == CHOOSE j \in 1 .. Len(st.environments) :
                     /\ name \in DOMAIN st.environments[j]
                     /\ \A k \in j + 1 .. Len(st.environments) :
                            name \notin DOMAIN st.environments[k]
         IN  Ok(st, st.environments[j][name])
    ELSE RuntimeError(st, "'" \o name \o "' is undefined")

RECURSIVE get(_, _)
get(st, name) ==
    IF st.index >= Len(st.environments)
    THEN Panic(st, "unwrap on None")
    ELSE IF name \in DOMAIN st.environments[st.index + 1]
    THEN Ok(st, st.environments[st.index + 1][name])
    ELSE LET st1 == [st EXCEPT !.index = @ + 1]
         IN  IF st1.index < Len(st1.environments)
             THEN LET r == get(st1, name)
                  IN  IF Failed(r) THEN r ELSE [r EXCEPT !.st.index = @ - 1]
             ELSE RuntimeError(st1, "'" \o name \o "' is undefined")

add_env(st) == [st EXCEPT !.environments = <<NewEnvironment>> \o @]

remove_env(st) == [st EXCEPT !.environments = Tail(@)]

\* history variable: one entry per define, assign, get and native call, with
\* the scope stack before and after it, the outcome and the value
Event(op, name, before, r) ==
    [op |-> op, name |-> name, before |-> before.environments,
     after |-> r.st.environments, k |-> r.k, v |-> r.v]

Logged(op, name, before, r) ==
    [r EXCEPT !.st.history = Append(@, Event(op, name, before, r))]

\* the scope operations as the interpreter performs them, each entered in
\* the history
env_define(st, name, value) ==
    LET after == define(st, name, value)
    IN  Logged("define", name, st, Ok(after, value)).st

env_assign(st, name, value) ==
    Logged("assign", name, st, [assign(st, name, value) EXCEPT !.v = value])

env_get(st, name) == Logged("get", name, st, get(st, name))

\* Environment::with_enclosing(current) followed by making the new scope the
\* current one: a new innermost scope whose parent is the scope that was
\* current
with_enclosing(st) == add_env(st)

---------------------------------------------------------------------------
(* The syntax tree (enum Expr, enum Stmt as the interpreter matches them). *)
(* A Token is kept as its lexeme (names) or its TokenType (operators).     *)

NoExpr == [e |-> "None"]
NoStmt == [s |-> "None"]

Literal(value) == [e |-> "Literal", value |-> value]
Variable(name) == [e |-> "Variable", name |-> name]
Group(expr) == [e |-> "Group", expr |-> expr]
Unary(operator, right) == [e |-> "Unary", operator |-> operator, right |-> right]
Binary(left, operator, right) ==
    [e |-> "Binary", left |-> left, operator |-> operator, right |-> right]
Logical(left, operator, right) ==
    [e |-> "Logical", left |-> left, operator |-> operator, right |-> right]
Assign(name, value) == [e |-> "Assign", name |-> name, value |-> value]
Call(callee, args) == [e |-> "Call", callee |-> callee, args |-> args]

Expression(expr) == [s |-> "Expression", expr |-> expr]
Block(stmts) == [s |-> "Block", statements |-> stmts]
VarDecl(name, initializer) == [s |-> "VarDecl", name |-> name, initializer |-> initializer]
While(condition, body) == [s |-> "While", condition |-> condition, body |-> body]
ForRange(name, range_start, range_end, body) ==
    [s |-> "ForRange", name |-> name, range_start |-> range_start,
     range_end |-> range_end, body |-> body]
If(condition, then_branch, else_branch) ==
    [s |-> "If", condition |-> condition, then_branch |-> then_branch,
     else_branch |-> else_branch]
FunctionDecl(name, params, body) ==
    [s |-> "FunctionDecl", name |-> name, params |-> params, body |-> body]
Return(value) == [s |-> "Return", value |-> value]

---------------------------------------------------------------------------
(* The native functions (stdlib.rs), by name.                              *)

\* str::parse::<f32> on the numerals the model's programs read
Numerals == -MaxNumeral .. MaxNumeral
Parses(s) == \E n \in Numerals : ToString(n) = s
ParseF32(s) == Number(CHOOSE n \in Numerals : ToString(n) = s)

\* Stdin::read_line: the next line with its newline, "" at end of input
ReadLine(st) == IF st.stdin = << >> THEN "" ELSE Head(st.stdin)
AfterRead(st) == IF st.stdin = << >> THEN st ELSE [st EXCEPT !.stdin = Tail(@)]

native(name, args, st) ==
    CASE name = "print" ->
            Ok([st EXCEPT !.stdout = @ \o Display(args[1])], Nil)
      [] name = "println" ->
            Ok([st EXCEPT !.stdout = @ \o Display(args[1]) \o "\n"], Nil)
      [] name = "input" -> Ok(AfterRead(st), Str(ReadLine(st)))
      [] name = "input_prompt" ->
            IF args[1].t # "String" THEN RuntimeError(st, "expected a string")
            ELSE LET st1 == [st EXCEPT !.stdout = @ \o args[1].s]
                     input == ReadLine(st1)
                 IN  IF Len(input) = 0
                     THEN Panic(AfterRead(st1), "attempt to subtract with overflow")
                     ELSE Ok(AfterRead(st1), Str(SubSeq(input, 1, Len(input) - 1)))
      [] name = "int" ->
            IF args[1].t = "Number" THEN Ok(st, as_f32(as_i32(args[1])))
            ELSE IF args[1].t = "String"
            THEN (IF Parses(args[1].s)
                  THEN Ok(st, as_f32(as_i32(ParseF32(args[1].s))))
                  ELSE RuntimeError(st, "cannot cast to int"))
            ELSE RuntimeError(st, "cannot cast to int")
      [] name = "str" ->
            IF args[1].t \in {"Number", "String"} THEN Ok(st, Str(Display(args[1])))
            ELSE RuntimeError(st, "cannot cast to string")

\* Interpreter::new: the global scope
GlobalEnvironment ==
    LET g0 == NewEnvironment
        g1 == Insert(g0, "input", NativeFunction("input", 0))
        g2 == Insert(g1, "input_prompt", NativeFunction("input_prompt", 1))
        g3 == Insert(g2, "println", NativeFunction("println", 1))
        g4 == Insert(g3, "print", NativeFunction("print", 1))
        g5 == Insert(g4, "int", NativeFunction("int", 1))
    IN  Insert(g5, "str", NativeFunction("str", 1))

---------------------------------------------------------------------------
(* The evaluator: Interpreter::evaluate, Interpreter::execute,             *)
(* Interpreter::execute_block and LiteralType::call.                       *)

is_truthy(object) == object.t = "Bool" /\ object.b

check_number_operand(st, operand) ==
    IF operand.t = "Number" THEN Ok(st, Nil)
    ELSE RuntimeError(st, "operand must be a number")

\* mutant of check_number_operands: a right operand of zero is refused too
check_number_operands_rejects_zero(st, left, right) ==
    IF left.t = "Number" /\ right.t = "Number" /\ right.num # 0 THEN Ok(st, Nil)
    ELSE RuntimeError(st, "operands must be a number")

check_number_operands(st, left, right) ==
    IF left.t = "Number" /\ right.t = "Number" THEN Ok(st, Nil)
    ELSE RuntimeError(st, "operands must be a number")

\* mutant of is_equal: two values of one kind compare, whatever the kind
is_equal_same_kind(st, left, right) ==
    IF left.t = "Number" /\ right.t = "Number" THEN Ok(st, Bool(FEq(left, right)))
    ELSE IF left.t = right.t THEN Ok(st, Bool(left = right))
    ELSE RuntimeError(st, "cannot compare")

is_equal(st, left, right) ==
    IF left.t = "Number" /\ right.t = "Number" THEN Ok(st, Bool(FEq(left, right)))
    ELSE IF left.t = "String" /\ right.t = "String" THEN Ok(st, Bool(left.s = right.s))
    ELSE RuntimeError(st, "cannot compare")

\* mutant of plus: a Number and a String are joined as text
plus_coercing(st, left, right) ==
    IF left.t = "Number" /\ right.t = "Number" THEN Ok(st, FAdd(left, right))
    ELSE IF left.t \in {"Number", "String"} /\ right.t \in {"Number", "String"}
    THEN Ok(st, Str(Display(left) \o Display(right)))
    ELSE RuntimeError(st, "cannot add")

\* the arm TokenType::Plus | TokenType::PlusEqual of Expr::Binary
plus(st, left, right) ==
    IF left.t = "Number" /\ right.t = "Number" THEN Ok(st, FAdd(left, right))
    ELSE IF left.t = "String" /\ right.t = "String" THEN Ok(st, Str(left.s \o right.s))
    ELSE RuntimeError(st, "cannot add")

\* the match on operator.t_type of Expr::Binary, both operands evaluated
binary(st, left, operator, right) ==
    IF operator \in {"EqualEqual", "BangEqual"}
    THEN LET eq == is_equal(st, left, right)
         IN  IF Failed(eq) THEN eq
             ELSE IF operator = "EqualEqual" THEN eq ELSE Ok(st, Bool(~eq.v.b))
    ELSE IF operator \in {"Plus", "PlusEqual"}
    THEN plus(st, left, right)
    ELSE LET chk == check_number_operands(st, left, right)
         IN  IF Failed(chk) THEN chk
             ELSE CASE operator \in {"Minus", "MinusEqual"} -> Ok(st, FSub(left, right))
                    [] operator \in {"Slash", "SlashEqual"} -> Ok(st, FDiv(left, right))
                    [] operator \in {"Star", "StarEqual"} -> Ok(st, FMul(left, right))
                    [] operator \in {"Percent", "PercentEqual"} -> Ok(st, FRem(left, right))
                    [] operator = "Greater" -> Ok(st, Bool(FLess(right, left)))
                    [] operator = "GreaterEqual" ->
                            Ok(st, Bool(FLess(right, left) \/ FEq(left, right)))
                    [] operator = "Less" -> Ok(st, Bool(FLess(left, right)))
                    [] operator = "LessEqual" ->
                            Ok(st, Bool(FLess(left, right) \/ FEq(left, right)))

\* mutant of arity: a value that is no function counts as taking none
arity_of_any(callee) ==
    CASE callee.t = "Function" ->
            [k |-> "ok", n |-> Len(callee.deceleration.params), message |-> ""]
      [] callee.t = "NativeFunction" -> [k |-> "ok", n |-> callee.arity, message |-> ""]
      [] OTHER -> [k |-> "ok", n |-> 0, message |-> ""]

\* LiteralType::arity
arity(callee) ==
    CASE callee.t = "Function" ->
            [k |-> "ok", n |-> Len(callee.deceleration.params), message |-> ""]
      [] callee.t = "NativeFunction" -> [k |-> "ok", n |-> callee.arity, message |-> ""]
      [] OTHER -> [k |-> "err", n |-> 0, message |-> "can only call functions and classes"]

\* the loop of LiteralType::call that defines the parameters in the new scope
RECURSIVE bind_params(_, _, _, _)

\* mutant of bind_params: the arguments are taken from the last to the first
bind_params_reversed(st, params, args, i) ==
    IF i > Len(params) THEN st
    ELSE bind_params(env_define(st, params[i], args[Len(args) - i + 1]),
                     params, args, i + 1)

bind_params(st, params, args, i) ==
    IF i > Len(params) THEN st
    ELSE bind_params(env_define(st, params[i], args[i]), params, args, i + 1)

RECURSIVE evaluate(_, _)
RECURSIVE evaluate_arguments(_, _, _, _)
RECURSIVE execute(_, _)
RECURSIVE execute_block(_, _)
RECURSIVE block_statements(_, _, _)
RECURSIVE while_loop(_, _, _)
RECURSIVE for_range(_, _, _, _)
RECURSIVE call(_, _, _)

\* mutant of evaluate_arguments: the arguments are evaluated from the last
\* to the first
evaluate_arguments_last_first(arguments, i, st, args) ==
    IF i > Len(arguments) THEN [st |-> st, k |-> "ok", args |-> args, message |-> ""]
    ELSE LET a == evaluate(arguments[Len(arguments) - i + 1], st)
         IN  IF Failed(a) THEN [st |-> a.st, k |-> a.k, args |-> args, message |-> a.message]
             ELSE evaluate_arguments(arguments, i + 1, a.st, <<a.v>> \o args)

\* `for argument in arguments { args.push(self.evaluate(argument)?) }`
evaluate_arguments(arguments, i, st, args) ==
    IF i > Len(arguments) THEN [st |-> st, k |-> "ok", args |-> args, message |-> ""]
    ELSE LET a == evaluate(arguments[i], st)
         IN  IF Failed(a) THEN [st |-> a.st, k |-> a.k, args |-> args, message |-> a.message]
             ELSE evaluate_arguments(arguments, i + 1, a.st, Append(args, a.v))

call(callee, st, args) ==
    CASE callee.t = "Function" ->
            LET params == callee.deceleration.params
                body == callee.deceleration.body
                environment == with_enclosing(st)
                r == execute_block(body, bind_params(environment, params, args, 1))
            IN  IF Failed(r) THEN r
                ELSE IF r.k = "return" THEN Ok(r.st, r.v)
                ELSE Ok(r.st, Nil)
      [] callee.t = "NativeFunction" ->
            Logged("native", callee.name, st, native(callee.name, args, st))
      [] OTHER -> RuntimeError(st, "can only call functions and classes")

\* mutant of evaluate_call: surplus arguments are let through
evaluate_call_at_least(callee, st, args) ==
    LET n == arity(callee)
    IN  IF n.k = "err" THEN RuntimeError(st, n.message)
        ELSE IF Len(args) >= n.n THEN call(callee, st, args)
        ELSE RuntimeError(st, "expected " \o ToString(n.n)
                              \o " arguments but got " \o ToString(Len(args)))

\* the end of the Expr::Call arm of evaluate: callee and arguments are
\* evaluated, the arity is checked and the call made
evaluate_call(callee, st, args) ==
    LET n == arity(callee)
    IN  IF n.k = "err" THEN RuntimeError(st, n.message)
        ELSE IF Len(args) = n.n THEN call(callee, st, args)
        ELSE RuntimeError(st, "expected " \o ToString(n.n)
                              \o " arguments but got " \o ToString(Len(args)))

\* mutant of logical: the value of the expression is made a Bool
logical_as_bool(expr, st) ==
    LET left == evaluate(expr.left, st)
    IN  IF Failed(left) THEN left
        ELSE IF expr.operator = "Or" /\ is_truthy(left.v) THEN Ok(left.st, Bool(TRUE))
        ELSE IF expr.operator # "Or" /\ ~is_truthy(left.v) THEN Ok(left.st, Bool(FALSE))
        ELSE LET right == evaluate(expr.right, left.st)
             IN  IF Failed(right) THEN right ELSE Ok(right.st, Bool(is_truthy(right.v)))

\* the Expr::Logical arm of evaluate
logical(expr, st) ==
    LET left == evaluate(expr.left, st)
    IN  IF Failed(left) THEN left
        ELSE IF expr.operator = "Or" /\ is_truthy(left.v) THEN left
        ELSE IF expr.operator # "Or" /\ ~is_truthy(left.v) THEN left
        ELSE evaluate(expr.right, left.st)

evaluate(expr, st) ==
    CASE expr.e = "Group" -> evaluate(expr.expr, st)
      [] expr.e = "Literal" -> Ok(st, expr.value)
      [] expr.e = "Variable" -> env_get(st, expr.name)
      [] expr.e = "Binary" ->
            LET left == evaluate(expr.left, st)
            IN  IF Failed(left) THEN left
                ELSE LET right == evaluate(expr.right, left.st)
                     IN  IF Failed(right) THEN right
                         ELSE binary(right.st, left.v, expr.operator, right.v)
      [] expr.e = "Unary" ->
            LET right == evaluate(expr.right, st)
            IN  IF Failed(right) THEN right
                ELSE IF expr.operator = "Bang" THEN Ok(right.st, Bool(is_truthy(right.v)))
                ELSE LET chk == check_number_operand(right.st, right.v)
                     IN  IF Failed(chk) THEN chk ELSE Ok(right.st, FNeg(right.v))
      [] expr.e = "Call" ->
            LET callee == evaluate(expr.callee, st)
            IN  IF Failed(callee) THEN callee
                ELSE LET a == evaluate_arguments(expr.args, 1, callee.st, << >>)
                     IN  IF Failed(a) THEN [st |-> a.st, k |-> a.k, v |-> Nil,
                                            message |-> a.message]
                         ELSE evaluate_call(callee.v, a.st, a.args)
      [] expr.e = "Assign" ->
            LET value == evaluate(expr.value, st)
            IN  IF Failed(value) THEN value
                ELSE LET a == env_assign(value.st, expr.name, value.v)
                     IN  IF Failed(a) THEN a ELSE Ok(a.st, value.v)
      [] expr.e = "Logical" -> logical(expr, st)

\* mutant of block_statements: a return does not stop the block
block_statements_run_on(stmts, i, st) ==
    IF i > Len(stmts) THEN None(st)
    ELSE LET r == execute(stmts[i], st)
         IN  IF Failed(r) THEN r
             ELSE IF r.k = "return" /\ i = Len(stmts) THEN r
             ELSE block_statements(stmts, i + 1, r.st)

\* the for loop of execute_block
block_statements(stmts, i, st) ==
    IF i > Len(stmts) THEN None(st)
    ELSE LET r == execute(stmts[i], st)
         IN  IF Failed(r) THEN r
             ELSE IF r.k = "return" THEN r
             ELSE block_statements(stmts, i + 1, r.st)

\* mutant of execute_block: a return leaves the scope of the block in place
execute_block_return_keeps_scope(stmts, st) ==
    LET r == block_statements(stmts, 1, st)
    IN  IF Failed(r) \/ r.k = "return" THEN r ELSE [r EXCEPT !.st = remove_env(@)]

\* st is the state in which `environment`, the scope the caller made with
\* with_enclosing, is already the current one; leaving restores `previous`
execute_block(stmts, st) ==
    LET r == block_statements(stmts, 1, st)
    IN  IF Failed(r) THEN r ELSE [r EXCEPT !.st = remove_env(@)]

\* mutant of while_loop: the body runs before the condition is looked at
while_loop_body_first(stmt, condition_value, st) ==
    LET b == execute(stmt.body, st)
    IN  IF Failed(b) THEN b
        ELSE IF b.k = "return" THEN b
        ELSE LET c == evaluate(stmt.condition, b.st)
             IN  IF Failed(c) THEN c
                 ELSE IF ~is_truthy(c.v) THEN None(c.st)
                 ELSE while_loop(stmt, c.v, c.st)

\* the loop `while self.is_truthy(&condition_value)`
while_loop(stmt, condition_value, st) ==
    IF ~is_truthy(condition_value) THEN None(st)
    ELSE LET b == execute(stmt.body, st)
         IN  IF Failed(b) THEN b
             ELSE IF b.k = "return" THEN b
             ELSE LET c == evaluate(stmt.condition, b.st)
                  IN  IF Failed(c) THEN c ELSE while_loop(stmt, c.v, c.st)

\* mutant of for_range: the loop leaves out its last iteration
for_range_short(stmt, i, stop, st) ==
    IF i >= stop - 1 THEN None(remove_env(st))
    ELSE LET a == env_assign(st, stmt.name, as_f32(i))
         IN  IF Failed(a) THEN a
             ELSE LET b == execute(stmt.body, a.st)
                  IN  IF Failed(b) THEN b
                      ELSE IF b.k = "return" THEN Some(remove_env(b.st), b.v)
                      ELSE for_range(stmt, i + 1, stop, b.st)

\* mutant of for_range: a return out of the body leaves the scope of the
\* loop in place
for_range_return_keeps_scope(stmt, i, stop, st) ==
    IF i >= stop THEN None(remove_env(st))
    ELSE LET a == env_assign(st, stmt.name, as_f32(i))
         IN  IF Failed(a) THEN a
             ELSE LET b == execute(stmt.body, a.st)
                  IN  IF Failed(b) \/ b.k = "return" THEN b
                      ELSE for_range(stmt, i + 1, stop, b.st)

\* mutant of for_range: the next iteration goes on from the value the body
\* left in the loop variable
for_range_from_variable(stmt, i, stop, st) ==
    IF i >= stop THEN None(remove_env(st))
    ELSE LET a == env_assign(st, stmt.name, as_f32(i))
         IN  IF Failed(a) THEN a
             ELSE LET b == execute(stmt.body, a.st)
                      left == b.st.environments[1][stmt.name]
                  IN  IF Failed(b) THEN b
                      ELSE IF b.k = "return" THEN Some(remove_env(b.st), b.v)
                      ELSE for_range(stmt, (IF left.t = "Number" THEN as_i32(left) ELSE i) + 1,
                                     stop, b.st)

\* the loop `for i in start_value as i32..(end_value + 1.0) as i32`
for_range(stmt, i, stop, st) ==
    IF i >= stop THEN None(remove_env(st))
    ELSE LET a == env_assign(st, stmt.name, as_f32(i))
         IN  IF Failed(a) THEN a
             ELSE LET b == execute(stmt.body, a.st)
                  IN  IF Failed(b) THEN b
                      ELSE IF b.k = "return" THEN Some(remove_env(b.st), b.v)
                      ELSE for_range(stmt, i + 1, stop, b.st)

\* mutant of for_range_match: the scope of the loop is made and the variable
\* defined before the bounds are looked at
for_range_match_scope_first(stmt, start, end, st) ==
    LET inner == env_define(with_enclosing(st), stmt.name, start)
    IN  IF start.t = "Number" /\ end.t = "Number"
        THEN for_range(stmt, as_i32(start), as_i32(FAdd(end, Number(1))), inner)
        ELSE RuntimeError(inner, "range must be a number")

\* `match (start, end)` of Stmt::ForRange, both bounds evaluated
for_range_match(stmt, start, end, st) ==
    IF start.t = "Number" /\ end.t = "Number"
    THEN for_range(stmt, as_i32(start), as_i32(FAdd(end, Number(1))),
                   env_define(with_enclosing(st), stmt.name, start))
    ELSE RuntimeError(st, "range must be a number")

execute(stmt, st) ==
    CASE stmt.s = "Expression" ->
            LET r == evaluate(stmt.expr, st)
            IN  IF Failed(r) THEN r ELSE None(r.st)
      [] stmt.s = "Block" -> execute_block(stmt.statements, with_enclosing(st))
      [] stmt.s = "VarDecl" ->
            IF stmt.initializer = NoExpr THEN None(env_define(st, stmt.name, Nil))
            ELSE LET value == evaluate(stmt.initializer, st)
                 IN  IF Failed(value) THEN value
                     ELSE None(env_define(value.st, stmt.name, value.v))
      [] stmt.s = "While" ->
            IF stmt.condition = NoExpr THEN None(st)
            ELSE LET c == evaluate(stmt.condition, st)
                 IN  IF Failed(c) THEN c ELSE while_loop(stmt, c.v, c.st)
      [] stmt.s = "ForRange" ->
            LET start == evaluate(stmt.range_start, st)
            IN  IF Failed(start) THEN start
                ELSE LET end == evaluate(stmt.range_end, start.st)
                     IN  IF Failed(end) THEN end
                         ELSE for_range_match(stmt, start.v, end.v, end.st)
      [] stmt.s = "If" ->
            LET c == evaluate(stmt.condition, st)
            IN  IF Failed(c) THEN c
                ELSE IF is_truthy(c.v) THEN execute(stmt.then_branch, c.st)
                ELSE IF stmt.else_branch # NoStmt THEN execute(stmt.else_branch, c.st)
                ELSE None(c.st)
      [] stmt.s = "FunctionDecl" -> None(env_define(st, stmt.name, Function(stmt)))
      [] stmt.s = "Return" ->
            LET value == evaluate(stmt.value, st)
            IN  IF Failed(value) THEN value ELSE Some(value.st, value.v)

---------------------------------------------------------------------------
(* The scanner (scanner.rs).  The source is ASCII text, a TLA+ string;     *)
(* positions count from 0 as in the source.  A Scanner is the record of    *)
(* the struct's fields.  peak gives "" at the end of the text (the         *)
(* source's NUL character, which is in no class of characters either).     *)

Token(t_type, lexeme, literal, line) ==
    [t_type |-> t_type, lexeme |-> lexeme, literal |-> literal, line |-> line]

\* no operator yet: the first operand of a binary expression
NoToken == [t_type |-> "None"]

\* Scanner::new
Scanner(code) ==
    [source |-> code, tokens |-> << >>, start |-> 0, current |-> 0, line |-> 1]

\* `let v = r; F(v)`: r is computed once, then F of its value (the set has
\* one element)
Then(r, F(_)) == CHOOSE w \in {F(v) : v \in {r}} : TRUE

\* `let v = r?; F(v)`: an Err of r is returned at once, its Ok value goes on
Try(r, F(_)) == CHOOSE w \in {IF v.k = "err" THEN v ELSE F(v) : v \in {r}} : TRUE

\* source.chars().nth(n) and &source[from..to]
char_at(text, n) == SubSeq(text, n + 1, n + 1)
slice(text, from, to) == SubSeq(text, from + 1, to)

\* char::is_numeric, char::is_alphabetic, char::is_alphanumeric on ASCII
Digits == {"0", "1", "2", "3", "4", "5", "6", "7", "8", "9"}
Letters ==
    {"a", "b", "c", "d", "e", "f", "g", "h", "i", "j", "k", "l", "m",
     "n", "o", "p", "q", "r", "s", "t", "u", "v", "w", "x", "y", "z",
     "A", "B", "C", "D", "E", "F", "G", "H", "I", "J", "K", "L", "M",
     "N", "O", "P", "Q", "R", "S", "T", "U", "V", "W", "X", "Y", "Z"}
is_numeric(c) == c \in Digits
is_alphabetic(c) == c \in Letters
is_alphanumeric(c) == c \in Letters \cup Digits

scanner_is_at_end(sc) == sc.current >= Len(sc.source)

scanner_peak(sc) == IF scanner_is_at_end(sc) THEN "" ELSE char_at(sc.source, sc.current)

\* Scanner::advance: the state after it; the character it returns is the one
\* at the position before, char_at(sc.source, sc.current)
scanner_advance(sc) == [sc EXCEPT !.current = @ + 1]

add_token(sc, t_type, literal) ==
    [sc EXCEPT !.tokens =
        Append(@, Token(t_type, slice(sc.source, sc.start, sc.current), literal, sc.line))]

\* whether match_char(expected) matches, and the scanner after it
matches_char(sc, expected) == ~scanner_is_at_end(sc) /\ scanner_peak(sc) = expected
match_char(sc, expected) == IF matches_char(sc, expected) THEN scanner_advance(sc) ELSE sc

\* `if self.match_char(c) { add_token(matched) } else { add_token(other) }`
add_token_either(sc, expected, matched, other) ==
    IF matches_char(sc, expected)
    THEN add_token(match_char(sc, expected), matched, Nil)
    ELSE add_token(sc, other, Nil)

match_keyword(name) ==
    CASE name = "and" -> "And"
      [] name = "class" -> "Class"
      [] name = "else" -> "Else"
      [] name = "true" -> "True"
      [] name = "false" -> "False"
      [] name = "for" -> "For"
      [] name = "while" -> "While"
      [] name = "fun" -> "Fun"
      [] name = "if" -> "If"
      [] name = "nil" -> "Nil"
      [] name = "or" -> "Or"
      [] name = "print" -> "Print"
      [] name = "return" -> "Return"
      [] name = "super" -> "Super"
      [] name = "this" -> "This"
      [] name = "var" -> "Var"
      [] name = "in" -> "In"
      [] OTHER -> "Identifier"

\* `while !self.is_at_end() && self.peak() != '\n' { self.advance(); }`
RECURSIVE skip_comment(_)
skip_comment(sc) ==
    IF ~scanner_is_at_end(sc) /\ scanner_peak(sc) # "\n"
    THEN skip_comment(scanner_advance(sc))
    ELSE sc

\* `while self.peak().is_numeric() { self.advance(); }`
RECURSIVE advance_numeric(_)
advance_numeric(sc) ==
    IF is_numeric(scanner_peak(sc)) THEN advance_numeric(scanner_advance(sc)) ELSE sc

\* `while self.peak().is_alphanumeric() || self.peak() == '_' { self.advance(); }`
RECURSIVE advance_identifier(_)
advance_identifier(sc) ==
    IF is_alphanumeric(scanner_peak(sc)) \/ scanner_peak(sc) = "_"
    THEN advance_identifier(scanner_advance(sc))
    ELSE sc

\* the first loop of scan_string, up to the closing quote or the end
RECURSIVE advance_string(_)
advance_string(sc) ==
    IF ~scanner_is_at_end(sc) /\ scanner_peak(sc) # "\""
    THEN advance_string(scanner_advance(
             IF scanner_peak(sc) = "\n" THEN [sc EXCEPT !.line = @ + 1] ELSE sc))
    ELSE sc

\* str::replace("\\n", "\n"): a backslash followed by n becomes a line feed
RECURSIVE replace_newlines(_)
replace_newlines(text) ==
    IF Len(text) = 0 THEN ""
    ELSE IF Len(text) >= 2 /\ SubSeq(text, 1, 2) = "\\n"
    THEN "\n" \o replace_newlines(SubSeq(text, 3, Len(text)))
    ELSE SubSeq(text, 1, 1) \o replace_newlines(SubSeq(text, 2, Len(text)))

\* str::parse::<f32> on a string of decimal digits: the nearest f32
DigitValue(c) == CHOOSE d \in 0 .. 9 : ToString(d) = c
RECURSIVE DigitsValue(_, _)
DigitsValue(text, value) ==
    IF Len(text) = 0 THEN value
    ELSE DigitsValue(SubSeq(text, 2, Len(text)), value * 10 + DigitValue(SubSeq(text, 1, 1)))
parse_f32(text) == Number(RoundF32(DigitsValue(text, 0)))

ScanOk(sc) == [k |-> "ok", sc |-> sc, message |-> ""]
ScannerError(sc, message) == [k |-> "err", sc |-> sc, message |-> message]

scan_string(sc) ==
    LET body == advance_string(sc)
    IN  IF scanner_is_at_end(body) THEN ScannerError(body, "unterminated string")
        ELSE LET closed == scanner_advance(body)
                 string == replace_newlines(
                               slice(closed.source, closed.start + 1, closed.current - 1))
             IN  ScanOk(add_token(closed, "String", Str(string)))

\* the test for a fraction, `self.peak() == '.' && self.peak().is_numeric()`,
\* holds of no character
scan_number(sc) ==
    LET whole == advance_numeric(sc)
        fraction == IF scanner_peak(whole) = "." /\ is_numeric(scanner_peak(whole))
                    THEN advance_numeric(scanner_advance(whole))
                    ELSE whole
        literal == slice(fraction.source, fraction.start, fraction.current)
    IN  ScanOk(add_token(fraction, "Number", parse_f32(literal)))

scan_identifier(sc) ==
    LET word == advance_identifier(sc)
        text == slice(word.source, word.start, word.current)
    IN  add_token(word, match_keyword(text), Nil)

\* sc0 is the scanner with start set; the character matched on is the one
\* advance returns
scan_token(sc0) ==
    LET current_char == char_at(sc0.source, sc0.current)
        sc == scanner_advance(sc0)
    IN  CASE current_char = "(" -> ScanOk(add_token(sc, "LeftParen", Nil))
          [] current_char = ")" -> ScanOk(add_token(sc, "RightParen", Nil))
          [] current_char = "{" -> ScanOk(add_token(sc, "LeftBrace", Nil))
          [] current_char = "}" -> ScanOk(add_token(sc, "RightBrace", Nil))
          [] current_char = "," -> ScanOk(add_token(sc, "Comma", Nil))
          [] current_char = "." -> ScanOk(add_token_either(sc, ".", "DotDot", "Dot"))
          [] current_char = ";" -> ScanOk(add_token(sc, "Semicolon", Nil))
          [] current_char = "-" -> ScanOk(add_token_either(sc, "=", "MinusEqual", "Minus"))
          [] current_char = "+" -> ScanOk(add_token_either(sc, "=", "PlusEqual", "Plus"))
          [] current_char = "*" -> ScanOk(add_token_either(sc, "=", "StarEqual", "Star"))
          [] current_char = "%" -> ScanOk(add_token_either(sc, "=", "PercentEqual", "Percent"))
          [] current_char = "/" ->
                IF matches_char(sc, "/") THEN ScanOk(skip_comment(match_char(sc, "/")))
                ELSE ScanOk(add_token_either(sc, "=", "SlashEqual", "Slash"))
          [] current_char = "!" -> ScanOk(add_token_either(sc, "=", "BangEqual", "Bang"))
          [] current_char = "=" -> ScanOk(add_token_either(sc, "=", "EqualEqual", "Equal"))
          [] current_char = "<" -> ScanOk(add_token_either(sc, "=", "LessEqual", "Less"))
          [] current_char = ">" -> ScanOk(add_token_either(sc, "=", "GreaterEqual", "Greater"))
          [] current_char = "\"" -> scan_string(sc)
          [] current_char \in {" ", "\r", "\t"} -> ScanOk(sc)
          [] current_char = "\n" -> ScanOk([sc EXCEPT !.line = @ + 1])
          [] OTHER ->
                IF is_numeric(current_char) THEN scan_number(sc)
                ELSE IF is_alphabetic(current_char) THEN ScanOk(scan_identifier(sc))
                ELSE ScannerError(sc, "unexpected character '" \o current_char \o "'")

---------------------------------------------------------------------------
(* The parser (parser.rs).  A Parser is the record of the struct's fields, *)
(* current counting from 0.  A method returns the parser after it with     *)
(* k = "ok" and what it built (node, nodes or token), or k = "err" with    *)
(* the message of the ParseError.                                          *)

Parser(token_list) == [tokens |-> token_list, current |-> 0]

Parsed(p, node) == [k |-> "ok", p |-> p, node |-> node]
ParsedAll(p, nodes) == [k |-> "ok", p |-> p, nodes |-> nodes]
ParseError(p, message) == [k |-> "err", p |-> p, message |-> message]

peak(p) == p.tokens[p.current + 1]
previous(p) == p.tokens[p.current]
is_at_end(p) == peak(p).t_type = "EOF"
check(p, token_type) == ~is_at_end(p) /\ peak(p).t_type = token_type
advance(p) == IF ~is_at_end(p) THEN [p EXCEPT !.current = @ + 1] ELSE p

\* whether match_token(token_types) matches, and the parser after it
matches_token(p, token_types) == \E token_type \in token_types : check(p, token_type)
match_token(p, token_types) == IF matches_token(p, token_types) THEN advance(p) ELSE p

consume(p, token_type, message) ==
    IF check(p, token_type)
    THEN [k |-> "ok", p |-> advance(p), token |-> previous(advance(p))]
    ELSE ParseError(p, message)

consume_optional(p, token_type) == IF check(p, token_type) THEN advance(p) ELSE p

RECURSIVE declaration(_)
RECURSIVE function_declaration(_, _)
RECURSIVE var_declaration(_)
RECURSIVE statement(_)
RECURSIVE if_statement(_)
RECURSIVE return_statement(_)
RECURSIVE for_statement(_)
RECURSIVE range_for_loop(_)
RECURSIVE manual_for_loop(_)
RECURSIVE while_statement(_)
RECURSIVE block(_)
RECURSIVE block_loop(_, _)
RECURSIVE expression_statement(_)
RECURSIVE expression(_)
RECURSIVE assignment(_)
RECURSIVE or(_)
RECURSIVE and(_)
RECURSIVE equality(_)
RECURSIVE equality_loop(_, _, _)
RECURSIVE comparison(_)
RECURSIVE comparison_loop(_, _, _)
RECURSIVE term(_)
RECURSIVE term_loop(_, _, _)
RECURSIVE factor(_)
RECURSIVE factor_loop(_, _, _)
RECURSIVE unary(_)
RECURSIVE call_expression(_)
RECURSIVE call_loop(_, _)
RECURSIVE finish_call(_, _)
RECURSIVE arguments_loop(_, _)
RECURSIVE primary(_)

declaration(p) ==
    IF matches_token(p, {"Fun"}) THEN function_declaration(match_token(p, {"Fun"}), "function")
    ELSE IF matches_token(p, {"Var"}) THEN var_declaration(match_token(p, {"Var"}))
    ELSE statement(p)

\* `while self.match_token(&[Comma]) { params.push(self.consume(Identifier, ..)?) }`
RECURSIVE parameters_loop(_, _)
parameters_loop(p, params) ==
    IF matches_token(p, {"Comma"})
    THEN Try(consume(match_token(p, {"Comma"}), "Identifier", "expect parameter name."),
             LAMBDA param :
         parameters_loop(param.p, Append(params, param.token.lexeme)))
    ELSE ParsedAll(p, params)

function_declaration(p, kind) ==
    Try(consume(p, "Identifier", "expect " \o kind \o " name"), LAMBDA name :
    Try(consume(name.p, "LeftParen", "expect '(' after " \o kind \o " name"), LAMBDA left :
    Try(IF ~check(left.p, "RightParen")
        THEN Try(consume(left.p, "Identifier", "expect parameter name."), LAMBDA param :
             parameters_loop(param.p, <<param.token.lexeme>>))
        ELSE ParsedAll(left.p, << >>), LAMBDA params :
    Try(consume(params.p, "RightParen", "expect ')' after " \o kind \o " parameters"),
        LAMBDA right :
    Try(consume(right.p, "LeftBrace", "expect '{' before " \o kind \o " body"), LAMBDA brace :
    Try(block(brace.p), LAMBDA body :
    Parsed(body.p, FunctionDecl(name.token.lexeme, params.nodes, body.nodes))))))))

var_declaration(p) ==
    Try(consume(p, "Identifier", "expect variable name"), LAMBDA name :
    Try(IF matches_token(name.p, {"Equal"})
        THEN expression(match_token(name.p, {"Equal"}))
        ELSE Parsed(name.p, NoExpr), LAMBDA initializer :
    Try(consume(initializer.p, "Semicolon", "expect ';' after variable declaration"),
        LAMBDA semicolon :
    Parsed(semicolon.p, VarDecl(name.token.lexeme, initializer.node)))))

statement(p) ==
    IF matches_token(p, {"If"}) THEN if_statement(match_token(p, {"If"}))
    ELSE IF matches_token(p, {"Return"}) THEN return_statement(match_token(p, {"Return"}))
    ELSE IF matches_token(p, {"While"}) THEN while_statement(match_token(p, {"While"}))
    ELSE IF matches_token(p, {"For"}) THEN for_statement(match_token(p, {"For"}))
    ELSE IF matches_token(p, {"LeftBrace"})
    THEN Try(block(match_token(p, {"LeftBrace"})), LAMBDA stmts :
         Parsed(stmts.p, Block(stmts.nodes)))
    ELSE expression_statement(p)

if_statement(p) ==
    Try(expression(consume_optional(p, "LeftParen")), LAMBDA condition :
    Try(statement(consume_optional(condition.p, "RightParen")), LAMBDA then_branch :
    Try(IF matches_token(then_branch.p, {"Else"})
        THEN statement(match_token(then_branch.p, {"Else"}))
        ELSE Parsed(then_branch.p, NoStmt), LAMBDA else_branch :
    Parsed(else_branch.p, If(condition.node, then_branch.node, else_branch.node)))))

return_statement(p) ==
    Try(IF ~check(p, "Semicolon") THEN expression(p) ELSE Parsed(p, Literal(Nil)),
        LAMBDA value :
    Try(consume(value.p, "Semicolon", "expect ';' after return value"), LAMBDA semicolon :
    Parsed(semicolon.p, Return(value.node))))

for_statement(p) ==
    Then(consume_optional(p, "LeftParen"), LAMBDA opened :
    Try(IF check(opened, "Identifier") THEN range_for_loop(opened)
        ELSE manual_for_loop(opened), LAMBDA stmt :
    Parsed(consume_optional(stmt.p, "RightParen"), stmt.node)))

range_for_loop(p) ==
    Then(advance(p), LAMBDA after :
    Then(previous(after), LAMBDA name :
    Try(consume(after, "In", "expected 'in' after name"), LAMBDA in :
    Try(expression(in.p), LAMBDA range_start :
    Try(consume(range_start.p, "DotDot", "expected '..' after expression"), LAMBDA dots :
    Try(expression(dots.p), LAMBDA range_end :
    Try(statement(range_end.p), LAMBDA body :
    Parsed(body.p,
           ForRange(name.lexeme, range_start.node, range_end.node, body.node)))))))))

manual_for_loop(p) ==
    Try(IF matches_token(p, {"Semicolon"}) THEN Parsed(match_token(p, {"Semicolon"}), NoStmt)
        ELSE IF matches_token(p, {"Var"}) THEN var_declaration(match_token(p, {"Var"}))
        ELSE expression_statement(p), LAMBDA initializer :
    Try(IF ~check(initializer.p, "Semicolon") THEN expression(initializer.p)
        ELSE Parsed(initializer.p, NoExpr), LAMBDA condition :
    Try(consume(condition.p, "Semicolon", "expect ';' after loop condition"),
        LAMBDA semicolon :
    Try(IF ~check(semicolon.p, "RightParen") THEN expression(semicolon.p)
        ELSE Parsed(semicolon.p, NoExpr), LAMBDA increment :
    Try(statement(increment.p), LAMBDA body :
    LET with_increment ==
            IF increment.node # NoExpr
            THEN Block(<<body.node, Expression(increment.node)>>)
            ELSE body.node
        loop == While(IF condition.node = NoExpr THEN Literal(Bool(TRUE))
                      ELSE condition.node,
                      with_increment)
    IN  Parsed(body.p, IF initializer.node # NoStmt
                       THEN Block(<<initializer.node, loop>>)
                       ELSE loop))))))

while_statement(p) ==
    Try(expression(consume_optional(p, "LeftParen")), LAMBDA condition :
    Try(statement(consume_optional(condition.p, "RightParen")), LAMBDA body :
    Parsed(body.p, While(condition.node, body.node))))

\* `while !self.check(RightBrace) && !self.is_at_end() { .. self.declaration()? .. }`
block_loop(p, stmts) ==
    IF ~check(p, "RightBrace") /\ ~is_at_end(p)
    THEN Try(declaration(p), LAMBDA decl : block_loop(decl.p, Append(stmts, decl.node)))
    ELSE ParsedAll(p, stmts)

block(p) ==
    Try(block_loop(p, << >>), LAMBDA stmts :
    Try(consume(stmts.p, "RightBrace", "expect '}' after block"), LAMBDA brace :
    ParsedAll(brace.p, stmts.nodes)))

expression_statement(p) ==
    Try(expression(p), LAMBDA expr :
    Try(consume(expr.p, "Semicolon", "expect ';' after expression"), LAMBDA semicolon :
    Parsed(semicolon.p, Expression(expr.node))))

expression(p) == assignment(p)

CompoundAssignments == {"PlusEqual", "MinusEqual", "StarEqual", "SlashEqual", "PercentEqual"}

assignment(p) ==
    Try(or(p), LAMBDA expr :
    IF matches_token(expr.p, {"Equal"})
    THEN Then(match_token(expr.p, {"Equal"}), LAMBDA after :
         IF expr.node.e # "Variable"
         THEN ParseError(after, "invalid assignment target")
         ELSE Try(assignment(after), LAMBDA value :
              Parsed(value.p, Assign(expr.node.name, value.node))))
    ELSE IF matches_token(expr.p, CompoundAssignments)
    THEN Then(match_token(expr.p, CompoundAssignments), LAMBDA after :
         IF expr.node.e # "Variable"
         THEN ParseError(after, "invalid assignment target")
         ELSE Then(previous(after), LAMBDA operator :
              Try(assignment(after), LAMBDA value :
              Parsed(value.p,
                     Assign(expr.node.name,
                            Binary(Variable(expr.node.name), operator.t_type,
                                   value.node))))))
    ELSE expr)

or(p) ==
    Try(and(p), LAMBDA expr :
    IF matches_token(expr.p, {"Or"})
    THEN Then(match_token(expr.p, {"Or"}), LAMBDA after :
         Try(or(after), LAMBDA right :
         Parsed(right.p, Logical(expr.node, previous(after).t_type, right.node))))
    ELSE expr)

and(p) ==
    Try(equality(p), LAMBDA expr :
    IF matches_token(expr.p, {"And"})
    THEN Then(match_token(expr.p, {"And"}), LAMBDA after :
         Try(and(after), LAMBDA right :
         Parsed(right.p, Logical(expr.node, previous(after).t_type, right.node))))
    ELSE expr)

\* `let mut expr = self.comparison()?; while self.match_token(..) { let operator =
\* self.previous(); let right = self.comparison()?; expr = Binary { .. }; }`, an
\* operand at a time: the first one (operator is NoToken) or a right one, which
\* is joined to expr; the loop goes on while an operator follows
equality_loop(p, expr, operator) ==
    Try(comparison(p), LAMBDA operand :
    LET joined == IF operator = NoToken THEN operand.node
                  ELSE Binary(expr, operator.t_type, operand.node)
    IN  IF matches_token(operand.p, {"BangEqual", "EqualEqual"})
        THEN Then(match_token(operand.p, {"BangEqual", "EqualEqual"}), LAMBDA after :
             equality_loop(after, joined, previous(after)))
        ELSE Parsed(operand.p, joined))

equality(p) == equality_loop(p, NoExpr, NoToken)

\* `let mut expr = self.term()?; while self.match_token(..) { let operator =
\* self.previous(); let right = self.term()?; expr = Binary { .. }; }`, an
\* operand at a time: the first one (operator is NoToken) or a right one, which
\* is joined to expr; the loop goes on while an operator follows
comparison_loop(p, expr, operator) ==
    Try(term(p), LAMBDA operand :
    LET joined == IF operator = NoToken THEN operand.node
                  ELSE Binary(expr, operator.t_type, operand.node)
    IN  IF matches_token(operand.p, {"Greater", "GreaterEqual", "Less", "LessEqual"})
        THEN Then(match_token(operand.p, {"Greater", "GreaterEqual", "Less", "LessEqual"}), LAMBDA after :
             comparison_loop(after, joined, previous(after)))
        ELSE Parsed(operand.p, joined))

comparison(p) == comparison_loop(p, NoExpr, NoToken)

\* `let mut expr = self.factor()?; while self.match_token(..) { let operator =
\* self.previous(); let right = self.factor()?; expr = Binary { .. }; }`, an
\* operand at a time: the first one (operator is NoToken) or a right one, which
\* is joined to expr; the loop goes on while an operator follows
term_loop(p, expr, operator) ==
    Try(factor(p), LAMBDA operand :
    LET joined == IF operator = NoToken THEN operand.node
                  ELSE Binary(expr, operator.t_type, operand.node)
    IN  IF matches_token(operand.p, {"Minus", "Plus"})
        THEN Then(match_token(operand.p, {"Minus", "Plus"}), LAMBDA after :
             term_loop(after, joined, previous(after)))
        ELSE Parsed(operand.p, joined))

term(p) == term_loop(p, NoExpr, NoToken)

\* the token types the loop of factor matches
FactorOperators == {"Slash", "Star", "Percent", "PercentEqual"}

\* `let mut expr = self.unary()?; while self.match_token(..) { let operator =
\* self.previous(); let right = self.unary()?; expr = Binary { .. }; }`, an
\* operand at a time: the first one (operator is NoToken) or a right one, which
\* is joined to expr; the loop goes on while an operator follows
factor_loop(p, expr, operator) ==
    Try(unary(p), LAMBDA operand :
    LET joined == IF operator = NoToken THEN operand.node
                  ELSE Binary(expr, operator.t_type, operand.node)
    IN  IF matches_token(operand.p, FactorOperators)
        THEN Then(match_token(operand.p, FactorOperators), LAMBDA after :
             factor_loop(after, joined, previous(after)))
        ELSE Parsed(operand.p, joined))

factor(p) == factor_loop(p, NoExpr, NoToken)

unary(p) ==
    IF matches_token(p, {"Bang", "Minus"})
    THEN Then(match_token(p, {"Bang", "Minus"}), LAMBDA after :
         Try(unary(after), LAMBDA right :
         Parsed(right.p, Unary(previous(after).t_type, right.node))))
    ELSE call_expression(p)

\* `loop { if self.match_token(&[LeftParen]) { expr = self.finish_call(expr)? } else { break } }`
call_loop(p, expr) ==
    IF matches_token(p, {"LeftParen"})
    THEN Try(finish_call(match_token(p, {"LeftParen"}), expr), LAMBDA finished :
         call_loop(finished.p, finished.node))
    ELSE Parsed(p, expr)

\* Parser::call
call_expression(p) == Try(primary(p), LAMBDA expr : call_loop(expr.p, expr.node))

\* `while self.match_token(&[Comma]) { args.push(self.expression()?) }`
arguments_loop(p, args) ==
    IF matches_token(p, {"Comma"})
    THEN Try(expression(match_token(p, {"Comma"})), LAMBDA arg :
         arguments_loop(arg.p, Append(args, arg.node)))
    ELSE ParsedAll(p, args)

finish_call(p, callee) ==
    Try(IF ~check(p, "RightParen")
        THEN Try(expression(p), LAMBDA arg : arguments_loop(arg.p, <<arg.node>>))
        ELSE ParsedAll(p, << >>), LAMBDA args :
    Try(consume(args.p, "RightParen", "expect ')' after arguments"), LAMBDA paren :
    Parsed(paren.p, Call(callee, args.nodes))))

primary(p) ==
    IF matches_token(p, {"False"}) THEN Parsed(match_token(p, {"False"}), Literal(Bool(FALSE)))
    ELSE IF matches_token(p, {"True"}) THEN Parsed(match_token(p, {"True"}), Literal(Bool(TRUE)))
    ELSE IF matches_token(p, {"Nil"}) THEN Parsed(match_token(p, {"Nil"}), Literal(Nil))
    ELSE IF matches_token(p, {"Number", "String"})
    THEN Then(match_token(p, {"Number", "String"}), LAMBDA after :
         Parsed(after, Literal(previous(after).literal)))
    ELSE IF matches_token(p, {"Identifier"})
    THEN Then(match_token(p, {"Identifier"}), LAMBDA after :
         Parsed(after, Variable(previous(after).lexeme)))
    ELSE IF matches_token(p, {"LeftParen"})
    THEN Try(expression(match_token(p, {"LeftParen"})), LAMBDA expr :
         Try(consume(expr.p, "RightParen", "expected ')' after expression"), LAMBDA paren :
         Parsed(paren.p, Group(expr.node))))
    ELSE ParseError(p, "expect expression")

---------------------------------------------------------------------------
(* Programs.  Each is the statement list Parser::parse hands to            *)
(* Interpreter::interpret, written with the constructors above.            *)

println(expr) == Expression(Call(Variable("println"), <<expr>>))
CallStmt(name, args) == Expression(Call(Variable(name), args))

\* the literal values a program of the model is built from
Literals == {Nil, Number(1), Number(2), Str("a"), Str("b"), Bool(TRUE), Bool(FALSE)}

\* var x = a; fun f() { println(x); } fun g() { var x = b; f(); } g();
ProgCallSite(a, b) ==
    << VarDecl("x", Literal(a)),
       FunctionDecl("f", << >>, <<println(Variable("x"))>>),
       FunctionDecl("g", << >>, <<VarDecl("x", Literal(b)), CallStmt("f", << >>)>>),
       CallStmt("g", << >>) >>

\* fun outer() { var c = a; fun inner() { return c; } c = b; return inner; }
\* var f = outer(); println(f());
ProgClosure(a, b) ==
    << FunctionDecl("outer", << >>,
          << VarDecl("c", Literal(a)),
             FunctionDecl("inner", << >>, <<Return(Variable("c"))>>),
             Expression(Assign("c", Literal(b))),
             Return(Variable("inner")) >>),
       VarDecl("f", Call(Variable("outer"), << >>)),
       println(Call(Variable("f"), << >>)) >>


S(text) == Literal(Str(text))
N(n) == Literal(Number(n))

\* the constructs a return has to pass through
NestKinds == {"Block", "If", "Else", "While", "ForRange"}

\* inner wrapped in one construct of the kind; whatever follows inner, in
\* the construct and behind it, writes "unreachable"; a loop body starts by
\* writing "iter"
Wrap(kind, inner) ==
    CASE kind = "Block" -> Block(<<inner, println(S("unreachable"))>>)
      [] kind = "If" ->
            Block(<<If(Literal(Bool(TRUE)), inner, println(S("unreachable"))),
                    println(S("unreachable"))>>)
      [] kind = "Else" ->
            Block(<<If(Literal(Nil), println(S("unreachable")), inner),
                    println(S("unreachable"))>>)
      [] kind = "While" ->
            Block(<<VarDecl("n", N(0)),
                    While(Binary(Variable("n"), "Less", N(2)),
                          Block(<<Expression(Assign("n", Binary(Variable("n"), "Plus", N(1)))),
                                  println(S("iter")), inner,
                                  println(S("unreachable"))>>)),
                    println(S("unreachable"))>>)
      [] kind = "ForRange" ->
            Block(<<ForRange("i", N(1), N(2),
                             Block(<<println(S("iter")), inner,
                                     println(S("unreachable"))>>)),
                    println(S("unreachable"))>>)

\* `return v;` inside the constructs kinds[i], kinds[i+1], ..., outermost first
RECURSIVE Nest(_, _, _)
Nest(kinds, i, v) ==
    IF i > Len(kinds) THEN Return(Literal(v)) ELSE Wrap(kinds[i], Nest(kinds, i + 1, v))

Nestings == UNION {[1 .. d -> NestKinds] : d \in 1 .. MaxDepth}

\* fun f() { <nest: return v;> println("unreachable"); }
\* fun g() { var r = f(); println("in g"); return r; }
\* println(g()); println("after");
ProgReturn(kinds, v) ==
    << FunctionDecl("f", << >>, <<Nest(kinds, 1, v), println(S("unreachable"))>>),
       FunctionDecl("g", << >>,
          << VarDecl("r", Call(Variable("f"), << >>)),
             println(S("in g")),
             Return(Variable("r")) >>),
       println(Call(Variable("g"), << >>)),
       println(S("after")) >>

\* the callables of ProgArity with their declared number of parameters
Callables == {"f0", "f1", "f2", "print", "println", "input", "input_prompt", "int", "str"}
DeclaredArity(name) ==
    CASE name \in {"f0", "input"} -> 0
      [] name = "f2" -> 2
      [] OTHER -> 1

Body == <<println(S("body")), Return(S("r"))>>
Args(n) == [i \in 1 .. n |-> S(ToString(i))]

\* fun f0() {..} fun f1(a) {..} fun f2(a, b) {..}
\* var r = callee("1", .., "n"); println("after");
ProgArity(callee, n) ==
    << FunctionDecl("f0", << >>, Body),
       FunctionDecl("f1", <<"a">>, Body),
       FunctionDecl("f2", <<"a", "b">>, Body),
       VarDecl("r", Call(Variable(callee), Args(n))),
       println(S("after")) >>


\* var x = a; { var x = b; } println(x);
ProgShadow(a, b) ==
    << VarDecl("x", Literal(a)),
       Block(<<VarDecl("x", Literal(b))>>),
       println(Variable("x")) >>

\* var x = a; { x = b; } println(x);
ProgAssignBlock(a, b) ==
    << VarDecl("x", Literal(a)),
       Block(<<Expression(Assign("x", Literal(b)))>>),
       println(Variable("x")) >>

ScopeOps == {"define", "assign", "read"}

\* the statements of nesting level i of ProgScope
RECURSIVE LevelStatements(_, _, _, _)
LevelStatements(i, d, decl, op) ==
    (IF i \in decl THEN <<VarDecl("x", S(ToString(i)))>> ELSE << >>)
    \o (IF i < d THEN <<Block(LevelStatements(i + 1, d, decl, op))>>
        ELSE IF op = "define" THEN <<VarDecl("x", S("new"))>>
        ELSE IF op = "assign" THEN <<Expression(Assign("x", S("new")))>>
        ELSE << >>)
    \o <<println(Variable("x"))>>

\* d nested blocks; level i (0 is the top level) declares x = "i" when i is
\* in decl; the innermost level then declares, assigns or only reads x; every
\* level ends by writing x
ProgScope(d, decl, op) == LevelStatements(0, d, decl, op)

\* the bounds of the range loops: the integers around zero and around the
\* ends of the interval on which f32 holds every integer, those that f32 holds
RangeStarts ==
    {a \in (-MaxSpan .. MaxSpan)
           \cup (F32Exact - MaxSpan .. F32Exact)
           \cup (-F32Exact - 2 .. -F32Exact + 1) : RoundF32(a) = a}
RangeEnds(a) == {b \in a - 2 .. a + MaxSpan - 1 : RoundF32(b) = b /\ b <= F32Exact}

\* an integer as the parser hands it over: the literal, negated below zero
Numeral(n) == IF n < 0 THEN Unary("Minus", N(-n)) ELSE N(n)

\* for i in a..b { println(i); } println("end");   with clobber the body ends
\* with i = nil;
ProgRange(a, b, clobber) ==
    << ForRange("i", Numeral(a), Numeral(b),
          Block(<<println(Variable("i"))>>
                \o (IF clobber THEN <<Expression(Assign("i", Literal(Nil)))>> ELSE << >>))),
       println(S("end")) >>

EqualityOperators == {"EqualEqual", "BangEqual"}

\* operands of every kind of value: f is a Function, str a NativeFunction
Operands == {Literal(v) : v \in Literals} \cup {Variable("f"), Variable("str")}

\* fun f() {} println(x op y); println("after");
ProgEq(operator, x, y) ==
    << FunctionDecl("f", << >>, << >>),
       println(Binary(x, operator, y)),
       println(S("after")) >>

\* fun f() {} println(x + y); println("after");
ProgAdd(x, y) ==
    << FunctionDecl("f", << >>, << >>),
       println(Binary(x, "Plus", y)),
       println(S("after")) >>

\* fun f() {} println(!x);
ProgNot(x) ==
    << FunctionDecl("f", << >>, << >>),
       println(Unary("Bang", x)) >>

LogicalOperators == {"Or", "And"}

\* fun r() { println("r"); return b; } println(a or r());   (or: and)
ProgLogical(operator, a, b) ==
    << FunctionDecl("r", << >>, <<println(S("r")), Return(Literal(b))>>),
       println(Logical(Literal(a), operator, Call(Variable("r"), << >>))) >>

\* fun f() {} if x { println("then"); } else { println("else"); }
\* println("after");      (without the else when else_branch is FALSE)
ProgIf(x, else_branch) ==
    << FunctionDecl("f", << >>, << >>),
       If(x, Block(<<println(S("then"))>>),
          IF else_branch THEN Block(<<println(S("else"))>>) ELSE NoStmt),
       println(S("after")) >>

\* var c = v; var n = 0; fun cond() { println("c"); return c; }
\* while cond() { println(n); n = n + 1; if n == turns { c = w; } }
\* println("after");
ProgWhile(v, turns, w) ==
    << VarDecl("c", Literal(v)),
       VarDecl("n", N(0)),
       FunctionDecl("cond", << >>, <<println(S("c")), Return(Variable("c"))>>),
       While(Call(Variable("cond"), << >>),
             Block(<< println(Variable("n")),
                      Expression(Assign("n", Binary(Variable("n"), "Plus", N(1)))),
                      If(Binary(Variable("n"), "EqualEqual", N(turns)),
                         Expression(Assign("c", Literal(w))), NoStmt) >>)),
       println(S("after")) >>

\* the values that are not Bool(true)
Falsy == Literals \ {Bool(TRUE)}

\* v("1", .., "n"); println("after");     v a literal
ProgCallValue(v, n) ==
    << Expression(Call(Literal(v), Args(n))),
       println(S("after")) >>

Params(n) == [i \in 1 .. n |-> "p" \o ToString(i)]
Returns == {"none", "bare", "twice"}

\* fun f(p1, .., pn) { println(p1); .. println(pn); <returns> }
\* println(f("1", .., "n"));
\* where <returns> is nothing, or `return; println("unreachable");`, or
\* `return "r1"; return "r2";`
ProgBind(n, returns) ==
    << FunctionDecl("f", Params(n),
          [i \in 1 .. n |-> println(Variable(Params(n)[i]))]
          \o (CASE returns = "none" -> << >>
                [] returns = "bare" -> <<Return(Literal(Nil)), println(S("unreachable"))>>
                [] returns = "twice" -> <<Return(S("r1")), Return(S("r2"))>>)),
       println(Call(Variable("f"), Args(n))) >>

\* the names a block of ProgBlock declares: y by a VarDecl, h by a FunctionDecl
BlockNames == {"y", "h"}
BlockExits == {"normal", "return"}

\* [var <name> = "out";]
\* { println("1"); var y = "in"; fun h() {} println(y); [return;] println("2"); }
\* println(<name>);
\* where the first line is there when outer is TRUE
ProgBlock(name, outer, exit) ==
    (IF outer THEN <<VarDecl(name, S("out"))>> ELSE << >>)
    \o << Block(<< println(S("1")),
                   VarDecl("y", S("in")),
                   FunctionDecl("h", << >>, << >>),
                   println(Variable("y")) >>
                 \o (IF exit = "return" THEN <<Return(Literal(Nil))>> ELSE << >>)
                 \o <<println(S("2"))>>),
          println(Variable(name)) >>

\* fun f() {} for i in x..y { println("body"); } println("after");
ProgRangeOf(x, y) ==
    << FunctionDecl("f", << >>, << >>),
       ForRange("i", x, y, Block(<<println(S("body"))>>)),
       println(S("after")) >>

\* the bounds of the range loops with fractions: the halves h/2 around zero
HalfStarts == -(2 * MaxSpan) .. 3
HalfEnds(ha) == ha - 3 .. ha + 2 * MaxSpan - 2

\* h / 2 as the parser hands it over
Half(h) == Binary(Numeral(h), "Slash", N(2))

\* for i in ha/2..hb/2 { println(i); } println("end");
ProgRangeHalves(ha, hb) ==
    << ForRange("i", Half(ha), Half(hb), Block(<<println(Variable("i"))>>)),
       println(S("end")) >>

\* var r = input_prompt("? "); println(r); println("after");
ProgPrompt ==
    << VarDecl("r", Call(Variable("input_prompt"), <<S("? ")>>)),
       println(Variable("r")),
       println(S("after")) >>

\* the operators whose operands must be Numbers
NumberOperators ==
    {"Minus", "Slash", "Star", "Percent", "Greater", "GreaterEqual", "Less", "LessEqual"}

\* operands of every kind of value, zero among the Numbers
NumberOperands ==
    {Literal(Nil), N(0), N(1), N(2), S("a"), Literal(Bool(TRUE)), Variable("f"),
     Variable("str")}

\* fun f() {} println(x op y); println("after");
ProgNumbers(operator, x, y) ==
    << FunctionDecl("f", << >>, << >>),
       println(Binary(x, operator, y)),
       println(S("after")) >>

\* what the callee expression of ProgCallOrder gives: nil, or the function g
\* of one parameter
Callees == {"nil", "g"}

\* fun t(x) { println(x); return x; }
\* fun g(a) { println("body"); }
\* fun c() { println("callee"); return <nil or g>; }
\* c()(t("1"), .., t("n")); println("after");
ProgCallOrder(callee, n) ==
    << FunctionDecl("t", <<"x">>, <<println(Variable("x")), Return(Variable("x"))>>),
       FunctionDecl("g", <<"a">>, <<println(S("body"))>>),
       FunctionDecl("c", << >>,
          << println(S("callee")),
             Return(IF callee = "nil" THEN Literal(Nil) ELSE Variable("g")) >>),
       Expression(Call(Call(Variable("c"), << >>),
                       [i \in 1 .. n |-> Call(Variable("t"), <<S(ToString(i))>>)])),
       println(S("after")) >>

\* the constructs whose scopes are to balance
BalanceKinds == {"Block", "If", "While", "ForRange", "Call"}
BalanceNestings == UNION {[1 .. d -> BalanceKinds] : d \in 1 .. MaxDepth}

\* the probes of level i: `var a<i>;` before a construct, `var b<i>;` behind it
Before(i) == VarDecl("a" \o ToString(i), NoExpr)
Behind(i) == VarDecl("b" \o ToString(i), NoExpr)

\* { var a<i>; <construct of the kind around inner> var b<i>; }   a loop runs
\* twice; a function h<i> is declared and called on the spot
Probed(kind, i, inner) ==
    Block(<< Before(i) >>
          \o (CASE kind = "Block" -> <<Block(<<inner>>)>>
                [] kind = "If" -> <<If(Literal(Bool(TRUE)), inner, NoStmt)>>
                [] kind = "While" ->
                      << VarDecl("n", N(0)),
                         While(Binary(Variable("n"), "Less", N(2)),
                               Block(<<Expression(Assign("n", Binary(Variable("n"), "Plus",
                                                                     N(1)))),
                                       inner>>)) >>
                [] kind = "ForRange" -> <<ForRange("i", N(1), N(2), Block(<<inner>>))>>
                [] kind = "Call" ->
                      << FunctionDecl("h" \o ToString(i), << >>, <<inner>>),
                         CallStmt("h" \o ToString(i), << >>) >>)
          \o << Behind(i) >>)

\* the constructs kinds[i], kinds[i+1], .. one in the other, each between its
\* probes; the innermost holds `println("in");` and, if so asked, `return;`
RECURSIVE ProbedNest(_, _, _)
ProbedNest(kinds, i, exit) ==
    IF i > Len(kinds)
    THEN Block(<<println(S("in"))>>
               \o (IF exit = "return" THEN <<Return(Literal(Nil))>> ELSE << >>))
    ELSE Probed(kinds[i], i, ProbedNest(kinds, i + 1, exit))

\* var a0; <the nest> var b0;
ProgBalance(kinds, exit) == <<Before(0), ProbedNest(kinds, 1, exit), Behind(0)>>

\* println("1"); return v; println("2");
\* { println("3"); return v; println("unreachable"); } println("4");
ProgTopReturn(v) ==
    << println(S("1")),
       Return(Literal(v)),
       println(S("2")),
       Block(<<println(S("3")), Return(Literal(v)), println(S("unreachable"))>>),
       println(S("4")) >>

\* what the body of the loop of ProgRangeAssign assigns to: the loop
\* variable i, the variable x of the lower bound, the variable y of the upper
AssignTargets == SUBSET {"i", "x", "y"}
AssignStarts == 0 .. 1
AssignEnds(a) == a - 1 .. a + MaxSpan - 1

\* var x = a; var y = b;
\* fun lo() { println("lo"); return x; } fun hi() { println("hi"); return y; }
\* for i in lo()..hi() { println(i); [i = i + 10;] [x = x + 10;] [y = y - 10;] }
\* println("end");
ProgRangeAssign(a, b, targets) ==
    << VarDecl("x", N(a)),
       VarDecl("y", Numeral(b)),
       FunctionDecl("lo", << >>, <<println(S("lo")), Return(Variable("x"))>>),
       FunctionDecl("hi", << >>, <<println(S("hi")), Return(Variable("y"))>>),
       ForRange("i", Call(Variable("lo"), << >>), Call(Variable("hi"), << >>),
          Block(<<println(Variable("i"))>>
                \o (IF "i" \in targets
                    THEN <<Expression(Assign("i", Binary(Variable("i"), "Plus", N(10))))>>
                    ELSE << >>)
                \o (IF "x" \in targets
                    THEN <<Expression(Assign("x", Binary(Variable("x"), "Plus", N(10))))>>
                    ELSE << >>)
                \o (IF "y" \in targets
                    THEN <<Expression(Assign("y", Binary(Variable("y"), "Minus", N(10))))>>
                    ELSE << >>))),
       println(S("end")) >>

Programs ==
    {ProgCallSite(a, b) : a \in Literals, b \in Literals}
    \cup {ProgClosure(a, b) : a \in Literals, b \in Literals}
    \cup {ProgReturn(kinds, v) : kinds \in Nestings, v \in Literals}
    \cup {ProgArity(callee, n) : callee \in Callables, n \in 0 .. MaxArgs}
    \cup {ProgShadow(a, b) : a \in Literals, b \in Literals}
    \cup {ProgAssignBlock(a, b) : a \in Literals, b \in Literals}
    \cup UNION {{ProgScope(d, decl, op) : decl \in SUBSET (0 .. d), op \in ScopeOps} :
                 d \in 0 .. MaxDepth}
    \cup UNION {{ProgRange(a, b, clobber) : b \in RangeEnds(a), clobber \in BOOLEAN} :
                 a \in RangeStarts}
    \cup {ProgEq(operator, x, y) : operator \in EqualityOperators,
                                   x \in Operands, y \in Operands}
    \cup {ProgAdd(x, y) : x \in Operands, y \in Operands}
    \cup {ProgCallValue(v, n) : v \in Literals, n \in 0 .. MaxArgs}
    \cup {ProgBind(n, returns) : n \in 0 .. MaxArgs, returns \in Returns}
    \cup {ProgNot(x) : x \in Operands}
    \cup {ProgLogical(operator, a, b) : operator \in LogicalOperators,
                                        a \in Literals, b \in Literals}
    \cup {ProgIf(x, else_branch) : x \in Operands, else_branch \in BOOLEAN}
    \cup {ProgWhile(v, turns, w) : v \in Literals, turns \in 1 .. MaxSpan, w \in Falsy}
    \cup {ProgRangeOf(x, y) : x \in Operands, y \in Operands}
    \cup UNION {{ProgRangeHalves(ha, hb) : hb \in HalfEnds(ha)} : ha \in HalfStarts}
    \cup {ProgPrompt}
    \cup {ProgNumbers(operator, x, y) : operator \in NumberOperators,
                                        x \in NumberOperands, y \in NumberOperands}
    \cup {ProgCallOrder(callee, n) : callee \in Callees, n \in 0 .. MaxArgs}
    \cup {ProgBalance(kinds, exit) : kinds \in BalanceNestings, exit \in BlockExits}
    \cup {ProgTopReturn(v) : v \in Literals}
    \cup UNION {{ProgRangeAssign(a, b, targets) : b \in AssignEnds(a),
                                                     targets \in AssignTargets} :
                 a \in AssignStarts}
    \cup {ProgBlock(name, outer, exit) : name \in BlockNames, outer \in BOOLEAN,
                                         exit \in BlockExits}

\* standard input: at its end; one line with its newline; a last line
\* that has no newline
Stdins == {<< >>, <<"7\n">>, <<"ab">>}

---------------------------------------------------------------------------
(* Program texts, for the runs that start at the file.                     *)

CompoundOperators == {"+", "-", "*", "/", "%"}

\* var x = 7; x OP= 1 + 1; println(x);
CompoundSource(x, op) ==
    "var x = " \o ToString(x) \o "; x " \o op \o "= 1 + 1; println(x);"

Clauses == {"none", "var", "expression"}

\* the body of the loops of ForSource: it leaves the loop by a return at the
\* latest when i is 3
ForBody == "{ i = i + 1; if i >= 3 { return; } }"

\* for (init; cond; incr) body println("end");   with or without the
\* parentheses, init being nothing, `var i = 0` or `i = 0`, cond being
\* `i < 3` or nothing, incr being `i = i + 1` or nothing; i is declared
\* before the loop unless the loop declares it
ForSource(parens, init, cond, incr) ==
    (IF init = "var" THEN "" ELSE "var i = 0; ")
    \o "for " \o (IF parens THEN "(" ELSE "")
    \o (CASE init = "none" -> ";" [] init = "var" -> "var i = 0;" [] init = "expression" -> "i = 0;")
    \o (IF cond THEN " i < 3" ELSE "") \o ";"
    \o (IF incr THEN " i = i + 1" ELSE "")
    \o (IF parens THEN ")" ELSE "") \o " " \o ForBody \o " println(\"end\");"

NativeNames == {"print", "println", "input", "input_prompt", "int", "str"}

\* a call of the native function by its name
CallSource(name) ==
    CASE name = "input" -> "input();"
      [] name = "str" -> "str(7);"
      [] name = "int" -> "int(\"7\");"
      [] OTHER -> name \o "(\"a\");"

Failures == {"none", "scanner", "parser", "runtime", "panic"}

RECURSIVE OkLines(_)
OkLines(n) == IF n = 0 THEN "" ELSE "println(\"ok\"); " \o OkLines(n - 1)

\* n statements that write ok, then the first error of the kind, then text
\* with further errors
FailSource(n, failure) ==
    OkLines(n)
    \o (CASE failure = "none" -> ""
          [] failure = "scanner" -> "@ println(\"later\"); # var ;"
          [] failure = "parser" -> "var ; println(\"later\"); ) println(nil + 1);"
          [] failure = "runtime" -> "println(nil + 1); println(\"later\"); println(y);"
          [] failure = "panic" -> "y = 1; println(\"later\");")

Sources ==
    {CompoundSource(x, op) : x \in 6 .. 8, op \in CompoundOperators}
    \cup {ForSource(parens, init, cond, incr) :
              parens \in BOOLEAN, init \in Clauses, cond \in BOOLEAN, incr \in BOOLEAN}
    \cup {CallSource(name) : name \in NativeNames}
    \cup {FailSource(n, failure) : n \in 0 .. MaxSpan, failure \in Failures}

---------------------------------------------------------------------------
(* The state machine: Interpreter::interpret and the process exit.         *)

St == [environments |-> environments, index |-> index, stdout |-> stdout,
       stdin |-> stdin, history |-> history]

\* main at the call of interpret, for a statement list of Programs (the text
\* and the tokens it came from are left out)
Init ==
    /\ source = ""
    /\ scanner = Scanner("")
    /\ parser = Parser(<< >>)
    /\ statements \in Programs
    /\ pc = 1
    /\ environments = <<GlobalEnvironment>>
    /\ index = 0
    /\ stdout = ""
    /\ stdin \in Stdins
    /\ stderr = << >>
    /\ status = "running"
    /\ history = << >>

\* self.execute(statement) for the statement the loop is at
Step == execute(statements[pc], St)

Effects(r) ==
    /\ environments' = r.st.environments
    /\ index' = r.st.index
    /\ stdout' = r.st.stdout
    /\ stdin' = r.st.stdin
    /\ history' = r.st.history

\* mutant of Interpret: a return at top level ends the loop over the
\* statements
Interpret_return_ends_run ==
    /\ status = "running"
    /\ pc <= Len(statements)
    /\ ~Failed(Step)
    /\ Effects(Step)
    /\ pc' = (IF Step.k = "return" THEN Len(statements) + 1 ELSE pc + 1)
    /\ UNCHANGED <<source, scanner, parser, statements, stderr, status>>

\* `_ => {}`: the statement completed (a top-level return value is dropped)
Interpret ==
    /\ status = "running"
    /\ pc <= Len(statements)
    /\ ~Failed(Step)
    /\ Effects(Step)
    /\ pc' = pc + 1
    /\ UNCHANGED <<source, scanner, parser, statements, stderr, status>>

\* mutant of Report: the diagnostic is written and the loop goes on
Report_and_go_on ==
    /\ status = "running"
    /\ pc <= Len(statements)
    /\ Step.k = "err"
    /\ Effects(Step)
    /\ stderr' = Append(stderr, Step.message)
    /\ pc' = pc + 1
    /\ UNCHANGED <<source, scanner, parser, statements, status>>

\* `Err(e) => e.report()`: the diagnostic, then process::exit(1)
Report ==
    /\ status = "running"
    /\ pc <= Len(statements)
    /\ Step.k = "err"
    /\ Effects(Step)
    /\ stderr' = Append(stderr, Step.message)
    /\ status' = "exit1"
    /\ UNCHANGED <<source, scanner, parser, statements, pc>>

\* a panic inside execute unwinds through interpret and main
Abort ==
    /\ status = "running"
    /\ pc <= Len(statements)
    /\ Step.k = "panic"
    /\ Effects(Step)
    /\ stderr' = Append(stderr, "panicked: " \o Step.message)
    /\ status' = "panic"
    /\ UNCHANGED <<source, scanner, parser, statements, pc>>

\* the loop is over: interpret and main return
Exit ==
    /\ status = "running"
    /\ pc > Len(statements)
    /\ status' = "done"
    /\ UNCHANGED <<source, scanner, parser, statements, pc, environments, index, stdout, stdin,
                   stderr, history>>

Next == Interpret \/ Report \/ Abort \/ Exit

Spec == Init /\ [][Next]_vars

---------------------------------------------------------------------------
(* The whole of main: the file is scanned, parsed and interpreted.         *)

\* main after fs::read_to_string, for a text of Sources
InitSource ==
    /\ source \in Sources
    /\ scanner = Scanner(source)
    /\ parser = Parser(<< >>)
    /\ statements = << >>
    /\ pc = 1
    /\ environments = << >>
    /\ index = 0
    /\ stdout = ""
    /\ stdin \in Stdins
    /\ stderr = << >>
    /\ status = "scanning"
    /\ history = << >>

\* one turn of the loop of scan_tokens: `self.start = self.current;` and a
\* scan_token that returned Ok
ScanToken ==
    /\ status = "scanning"
    /\ ~scanner_is_at_end(scanner)
    /\ LET r == scan_token([scanner EXCEPT !.start = scanner.current])
       IN  r.k = "ok" /\ scanner' = r.sc
    /\ UNCHANGED <<source, parser, statements, pc, environments, index, stdout, stdin, stderr,
                   status, history>>

\* `Err(e) => e.report()` in scan_tokens: the diagnostic, then process::exit(65)
ScannerReport ==
    /\ status = "scanning"
    /\ ~scanner_is_at_end(scanner)
    /\ LET r == scan_token([scanner EXCEPT !.start = scanner.current])
       IN  r.k = "err" /\ stderr' = Append(stderr, r.message)
    /\ status' = "exit65"
    /\ UNCHANGED <<source, scanner, parser, statements, pc, environments, index, stdout, stdin,
                   history>>

\* the end of scan_tokens: the EOF token is added and the tokens returned;
\* Parser::new(tokens)
ScanTokens ==
    /\ status = "scanning"
    /\ scanner_is_at_end(scanner)
    /\ scanner' = add_token(scanner, "EOF", Nil)
    /\ parser' = Parser(scanner'.tokens)
    /\ status' = "parsing"
    /\ UNCHANGED <<source, statements, pc, environments, index, stdout, stdin, stderr,
                   history>>

\* one turn of the loop of Parser::parse: a declaration that returned Ok is
\* pushed
ParseDeclaration ==
    /\ status = "parsing"
    /\ ~is_at_end(parser)
    /\ \E decl \in {declaration(parser)} :
          /\ decl.k = "ok"
          /\ statements' = Append(statements, decl.node)
          /\ parser' = decl.p
    /\ UNCHANGED <<source, scanner, pc, environments, index, stdout, stdin, stderr, status,
                   history>>

\* mutant of ParseReport: the diagnostic is written and parse goes on with
\* the next declaration
ParseReport_and_go_on ==
    /\ status = "parsing"
    /\ ~is_at_end(parser)
    /\ \E decl \in {declaration(parser)} :
          /\ decl.k = "err"
          /\ stderr' = Append(stderr, decl.message)
          /\ parser' = advance(decl.p)
    /\ UNCHANGED <<source, scanner, statements, pc, environments, index, stdout, stdin,
                   status, history>>

\* `Err(err) => err.report()` in parse: the diagnostic, then process::exit(1)
ParseReport ==
    /\ status = "parsing"
    /\ ~is_at_end(parser)
    /\ \E decl \in {declaration(parser)} :
          /\ decl.k = "err"
          /\ stderr' = Append(stderr, decl.message)
    /\ status' = "exit1"
    /\ UNCHANGED <<source, scanner, parser, statements, pc, environments, index, stdout,
                   stdin, history>>

\* parser.parse() returned the statements; Interpreter::new() made the
\* global scope
Parse ==
    /\ status = "parsing"
    /\ is_at_end(parser)
    /\ environments' = <<GlobalEnvironment>>
    /\ status' = "running"
    /\ UNCHANGED <<source, scanner, parser, statements, pc, index, stdout, stdin, stderr,
                   history>>

NextSource ==
    \/ ScanToken \/ ScannerReport \/ ScanTokens \/ ParseDeclaration \/ ParseReport \/ Parse
    \/ Interpret \/ Report \/ Abort \/ Exit

SpecSource == InitSource /\ [][NextSource]_vars

\* the loop of Parser::parse runs on: while a turn of it can be taken, one
\* is taken (the process is not stopped from outside)
SpecSourceFair == SpecSource /\ WF_vars(ParseDeclaration \/ ParseReport \/ Parse)

---------------------------------------------------------------------------
(* Claims.                                                                 *)

Finished == status \in {"done", "exit1", "exit65", "panic"}

\* C1: the scope of a call is a child of the scope in which the function
\* was declared, so the free variable x of f reads the binding visible where
\* f was declared (the global x = a), not the caller's local x = b:
\* ProgCallSite(a, b) ends normally having written a.
C1_CallScopeIsDeclarationScope ==
    \A a \in Literals, b \in Literals :
        (Finished /\ statements = ProgCallSite(a, b))
            => (status = "done" /\ stdout = Display(a) \o "\n")

\* C2: a function returned from another function reads the outer function's
\* variable after the outer call has returned and sees the assignment made
\* after it was declared: ProgClosure(a, b) ends normally having written b.
C2_ClosureReadsOuterVariable ==
    \A a \in Literals, b \in Literals :
        (Finished /\ statements = ProgClosure(a, b))
            => (status = "done" /\ stdout = Display(b) \o "\n")

\* how many of the constructs are loops
RECURSIVE Loops(_, _)
Loops(kinds, i) ==
    IF i > Len(kinds) THEN 0
    ELSE (IF kinds[i] \in {"While", "ForRange"} THEN 1 ELSE 0) + Loops(kinds, i + 1)

RECURSIVE Repeat(_, _)
Repeat(text, n) == IF n = 0 THEN "" ELSE text \o Repeat(text, n - 1)

\* C3: a return inside any nesting of Block, If, While and ForRange ends the
\* call at once: no statement behind it runs ("unreachable" is never
\* written), every enclosing loop stops in its first iteration (one "iter"
\* per loop), the value reaches the caller unchanged, and the callers g and
\* the top level go on ("in g", the value, "after").
C3_ReturnPropagates ==
    \A kinds \in Nestings, v \in Literals :
        (Finished /\ Len(statements) = 4 /\ statements = ProgReturn(kinds, v))
            => /\ status = "done"
               /\ stdout = Repeat("iter\n", Loops(kinds, 1)) \o "in g\n"
                           \o Display(v) \o "\n" \o "after\n"

\* C3 witness: a return through a ForRange inside a While has reached the
\* top level
C3_Witness ==
    /\ statements = ProgReturn(<<"While", "ForRange">>, Number(2))
    /\ status = "done"
    /\ stdout = "iter\niter\nin g\n2\nafter\n"

\* C4: a call with another number of arguments than the callee's arity is a
\* runtime error naming both counts; nothing was written, read or defined:
\* the history holds the three function declarations and the lookup of the
\* callee and nothing else, and the scope stack is the global scope alone.
C4_ArityMismatchHasNoEffect ==
    \A callee \in Callables, n \in 0 .. MaxArgs :
        (pc >= 4 /\ n # DeclaredArity(callee) /\ statements = ProgArity(callee, n))
            => \/ status = "running" /\ pc = 4
               \/ /\ status = "exit1" /\ pc = 4
                  /\ stderr = <<"expected " \o ToString(DeclaredArity(callee))
                                \o " arguments but got " \o ToString(n)>>
                  /\ stdout = ""
                  /\ Len(history) = 4
                  /\ \A i \in 1 .. 3 : history[i].op = "define"
                  /\ history[4].op = "get" /\ history[4].name = callee
                  /\ Len(environments) = 1
                  /\ DOMAIN environments[1] = DOMAIN GlobalEnvironment \cup {"f0", "f1", "f2"}

\* C4 witness: f1 called with two arguments has been refused
C4_Witness ==
    /\ statements = ProgArity("f1", 2)
    /\ status = "exit1"
    /\ stderr = <<"expected 1 arguments but got 2">>

\* whether some scope of the stack binds the name, and the innermost that does
Defined(envs, name) == \E j \in 1 .. Len(envs) : name \in DOMAIN envs[j]
FirstDefining(envs, name) ==
    CHOOSE j \in 1 .. Len(envs) :
        name \in DOMAIN envs[j] /\ \A k \in 1 .. j - 1 : name \notin DOMAIN envs[k]

\* scope `after` is scope `before` with name bound to v and nothing else changed
Rebound(before, after, name, v) ==
    /\ DOMAIN after = DOMAIN before \cup {name}
    /\ after[name] = v
    /\ \A n \in DOMAIN before \ {name} : after[n] = before[n]

\* C5: every define (of a VarDecl, FunctionDecl, parameter or loop variable)
\* writes the innermost scope only and leaves every enclosing scope as it
\* was; so after `var x = a; { var x = b; }` the outer x still reads a.
C5_DefineWritesInnermostScope ==
    /\ \A i \in 1 .. Len(history) :
          history[i].op = "define" =>
              LET e == history[i]
              IN  /\ Len(e.after) = Len(e.before)
                  /\ Rebound(e.before[1], e.after[1], e.name, e.v)
                  /\ \A j \in 2 .. Len(e.before) : e.after[j] = e.before[j]
    /\ \A a \in Literals, b \in Literals :
          (Finished /\ statements = ProgShadow(a, b))
              => (status = "done" /\ stdout = Display(a) \o "\n")

\* C5 witness: x was declared in a block under two scopes that bind x already
C5_Witness ==
    /\ status = "done"
    /\ \E i \in 1 .. Len(history) :
          /\ history[i].op = "define" /\ history[i].name = "x"
          /\ Len(history[i].before) = 3
          /\ "x" \in DOMAIN history[i].before[2]
          /\ "x" \in DOMAIN history[i].before[3]

\* C6: an assign to a name some scope binds succeeds and rebinds the name in
\* the innermost scope that binds it; no other scope changes and no scope
\* gains a name; so after `var x = a; { x = b; }` the outer x reads b.
C6_AssignMutatesFirstDefiningScope ==
    /\ \A i \in 1 .. Len(history) :
          (history[i].op = "assign" /\ Defined(history[i].before, history[i].name)) =>
              LET e == history[i]
                  j == FirstDefining(e.before, e.name)
              IN  /\ e.k = "ok"
                  /\ Len(e.after) = Len(e.before)
                  /\ DOMAIN e.after[j] = DOMAIN e.before[j]
                  /\ Rebound(e.before[j], e.after[j], e.name, e.v)
                  /\ \A k \in 1 .. Len(e.before) : k # j => e.after[k] = e.before[k]
    /\ \A a \in Literals, b \in Literals :
          (Finished /\ statements = ProgAssignBlock(a, b))
              => (status = "done" /\ stdout = Display(b) \o "\n")

\* C6 witness: an assign went past the innermost scope to the middle one of
\* three, which shadows an outer binding of the name
C6_Witness ==
    /\ status = "done"
    /\ \E i \in 1 .. Len(history) :
          /\ history[i].op = "assign" /\ history[i].name = "x" /\ history[i].k = "ok"
          /\ Len(history[i].before) = 3
          /\ "x" \notin DOMAIN history[i].before[1]
          /\ "x" \in DOMAIN history[i].before[2]
          /\ "x" \in DOMAIN history[i].before[3]
          /\ history[i].after[2]["x"] = Str("new")

\* C7: an assign to a name no scope binds is the runtime error "undefined
\* variable" (reported, exit 1) and leaves the name unbound in every scope.
C7_AssignUndefinedIsRuntimeError ==
    \A i \in 1 .. Len(history) :
        (history[i].op = "assign" /\ ~Defined(history[i].before, history[i].name)) =>
            /\ history[i].k = "err"
            /\ ~Defined(history[i].after, history[i].name)
            /\ status = "exit1"
            /\ stderr = <<"'" \o history[i].name \o "' variable undefined">>

\* what the lookups of the run did, with Message(name) the text of the error
\* for an unbound name: a get returns the binding of the innermost scope that
\* binds the name; it is a runtime error with that text (reported, exit 1)
\* exactly when no scope binds the name; the scopes are the same before and
\* after.
GetReadsInnermostBinding(Message(_)) ==
    \A i \in 1 .. Len(history) :
        history[i].op = "get" =>
            LET e == history[i]
            IN  /\ e.after = e.before
                /\ Defined(e.before, e.name) =>
                      /\ e.k = "ok"
                      /\ e.v = e.before[FirstDefining(e.before, e.name)][e.name]
                /\ ~Defined(e.before, e.name) =>
                      /\ e.k = "err"
                      /\ i = Len(history)
                      /\ status = "exit1"
                      /\ stderr = <<Message(e.name)>>

\* C8 as stated: a Variable reads the innermost binding of the name, and is
\* the runtime error 'undefined variable' exactly when no scope binds it; a
\* lookup changes no scope.
C8_UndefinedVariableMessage == GetReadsInnermostBinding(LAMBDA name : "undefined variable")

\* C8 amended: as C8, the text of the error being '<name>' is undefined.
C8_GetReadsInnermostBinding ==
    GetReadsInnermostBinding(LAMBDA name : "'" \o name \o "' is undefined")

\* C8 witness: x was read under three scopes, the innermost without x, the
\* middle one shadowing the outer x
C8_Witness ==
    /\ status = "done"
    /\ \E i \in 1 .. Len(history) :
          /\ history[i].op = "get" /\ history[i].name = "x" /\ history[i].k = "ok"
          /\ Len(history[i].before) = 3
          /\ "x" \notin DOMAIN history[i].before[1]
          /\ "x" \in DOMAIN history[i].before[2]
          /\ "x" \in DOMAIN history[i].before[3]
          /\ history[i].before[2]["x"] # history[i].before[3]["x"]
          /\ history[i].v = history[i].before[2]["x"]

\* the lines println writes for the integers a .. b
RECURSIVE Lines(_, _)
Lines(a, b) == IF a > b THEN "" ELSE ToString(a) \o "\n" \o Lines(a + 1, b)

\* the range loop over a .. b ran its body once for each integer of a .. b,
\* in increasing order, i being that integer when the body starts
RangeRuns(a, b) ==
    \A clobber \in BOOLEAN :
        (Finished /\ statements = ProgRange(a, b, clobber))
            => (status = "done" /\ stdout = Lines(a, b) \o "end\n")

\* C9 as stated: for integer-valued Numbers a and b, `for i in a..b` runs
\* its body once for each integer from a to b, in order, and never when a > b.
C9_RangeIsInclusive ==
    \A a \in RangeStarts : \A b \in RangeEnds(a) : RangeRuns(a, b)

\* C9 amended: the same for a and b from -2^24 to 2^24 - 1, where f32 holds
\* every integer and b + 1; and whatever the bounds, never when a > b.
C9_RangeIsInclusiveBelowF32Exact ==
    \A a \in RangeStarts : \A b \in RangeEnds(a) :
        ((-F32Exact <= a /\ b < F32Exact) \/ a > b) => RangeRuns(a, b)

\* C9 witness: for i in 1..3 wrote 1, 2, 3
C9_Witness ==
    /\ statements = ProgRange(1, 3, FALSE)
    /\ status = "done"
    /\ stdout = "1\n2\n3\nend\n"

\* C10: == and != yield a Bool (the operands being equal, or not) when both
\* operands are Numbers or both are Strings; for every other pair of kinds
\* the run ends with the runtime error "cannot compare", nothing written.
C10_EqualityOnlyOnNumbersAndStrings ==
    \A operator \in EqualityOperators : \A x \in Operands, y \in Operands :
        (Finished /\ statements = ProgEq(operator, x, y)) =>
            IF /\ x.e = "Literal" /\ y.e = "Literal"
               /\ x.value.t = y.value.t
               /\ x.value.t \in {"Number", "String"}
            THEN /\ status = "done"
                 /\ stdout = Display(Bool((x = y) <=> (operator = "EqualEqual")))
                                 \o "\n" \o "after\n"
            ELSE /\ status = "exit1"
                 /\ stderr = <<"cannot compare">>
                 /\ stdout = ""

\* C10 witness: true == true ended the run with "cannot compare"
C10_Witness ==
    /\ statements = ProgEq("EqualEqual", Literal(Bool(TRUE)), Literal(Bool(TRUE)))
    /\ status = "exit1"
    /\ stderr = <<"cannot compare">>

\* C11: + is the sum of two Numbers and the left String followed by the
\* right one for two Strings; for every other pair of kinds, a Number with a
\* String among them, the run ends with the runtime error "cannot add".
C11_PlusAddsNumbersJoinsStrings ==
    \A x \in Operands, y \in Operands :
        (Finished /\ statements = ProgAdd(x, y)) =>
            IF x.e = "Literal" /\ y.e = "Literal"
               /\ x.value.t = "Number" /\ y.value.t = "Number"
            THEN /\ status = "done"
                 /\ stdout = ToString(x.value.num + y.value.num) \o "\n" \o "after\n"
            ELSE IF x.e = "Literal" /\ y.e = "Literal"
                    /\ x.value.t = "String" /\ y.value.t = "String"
            THEN /\ status = "done"
                 /\ stdout = x.value.s \o y.value.s \o "\n" \o "after\n"
            ELSE /\ status = "exit1"
                 /\ stderr = <<"cannot add">>
                 /\ stdout = ""

\* C11 witness: "a" + "b" wrote ab, and "a" + 1 ended another run with
\* "cannot add"
C11_Witness ==
    \/ /\ statements = ProgAdd(S("a"), S("b"))
       /\ status = "done"
       /\ stdout = "ab\nafter\n"
    \/ /\ statements = ProgAdd(S("a"), N(1))
       /\ status = "exit1"
       /\ stderr = <<"cannot add">>

\* C12: !v is false when v is Bool(true) and true for every other value.
C12_BangNegatesTruthiness ==
    \A x \in Operands :
        (Finished /\ statements = ProgNot(x)) =>
            /\ status = "done"
            /\ stdout = (IF x = Literal(Bool(TRUE)) THEN "false" ELSE "true") \o "\n"

\* C13: `a or r()` calls r only if a is not Bool(true), `a and r()` only if
\* a is Bool(true); the value is a as it is when r is not called, and what r
\* returned, as it is, when r is called.
C13_LogicalShortCircuits ==
    \A operator \in LogicalOperators : \A a \in Literals, b \in Literals :
        (Finished /\ statements = ProgLogical(operator, a, b)) =>
            /\ status = "done"
            /\ stdout = IF (a = Bool(TRUE)) <=> (operator = "Or")
                        THEN Display(a) \o "\n"
                        ELSE "r\n" \o Display(b) \o "\n"

\* C13 witness: `1 or r()` with r returning "a" wrote r and a
C13_Witness ==
    /\ statements = ProgLogical("Or", Number(1), Str("a"))
    /\ status = "done"
    /\ stdout = "r\na\n"

\* what the loop of ProgWhile writes when its body runs turns times
RECURSIVE Turns(_, _)
Turns(i, turns) ==
    IF i >= turns THEN "" ELSE ToString(i) \o "\n" \o "c\n" \o Turns(i + 1, turns)

\* C14: an If runs its then branch exactly when the condition is Bool(true),
\* else its else branch if it has one; a While evaluates its condition
\* before every iteration and runs its body while that is Bool(true).
C14_OnlyTrueIsTruthy ==
    /\ \A x \in Operands, else_branch \in BOOLEAN :
          (Finished /\ statements = ProgIf(x, else_branch)) =>
              /\ status = "done"
              /\ stdout = (IF x = Literal(Bool(TRUE)) THEN "then\n"
                           ELSE IF else_branch THEN "else\n" ELSE "") \o "after\n"
    /\ \A v \in Literals, turns \in 1 .. MaxSpan, w \in Falsy :
          (Finished /\ statements = ProgWhile(v, turns, w)) =>
              /\ status = "done"
              /\ stdout = "c\n" \o (IF v = Bool(TRUE) THEN Turns(0, turns) ELSE "")
                              \o "after\n"

\* C14 witness: a loop ran twice and stopped when its condition became nil;
\* an If on 1 took its else branch in another run
C14_Witness ==
    \/ /\ statements = ProgWhile(Bool(TRUE), 2, Nil)
       /\ status = "done"
       /\ stdout = "c\n0\nc\n1\nc\nafter\n"
    \/ /\ statements = ProgIf(N(1), TRUE)
       /\ status = "done"
       /\ stdout = "else\nafter\n"

\* C19: calling Nil, a Number, a String or a Bool, with any number of
\* arguments, ends the run with the runtime error "can only call functions
\* and classes".
C19_OnlyFunctionsAreCallable ==
    \A v \in Literals, n \in 0 .. MaxArgs :
        (Finished /\ statements = ProgCallValue(v, n)) =>
            /\ status = "exit1"
            /\ stderr = <<"can only call functions and classes">>
            /\ stdout = ""

\* C19 witness: nil("1", "2") ended the run with that error
C19_Witness ==
    /\ statements = ProgCallValue(Nil, 2)
    /\ status = "exit1"
    /\ stderr = <<"can only call functions and classes">>

\* the lines println writes for "1" .. "n"
RECURSIVE ArgLines(_, _)
ArgLines(i, n) == IF i > n THEN "" ELSE ToString(i) \o "\n" \o ArgLines(i + 1, n)

\* C20: a call of f(p1, .., pn) with n arguments defines pi as the i-th
\* argument, in a scope that was empty when the call began; the call's value
\* is that of the first Return the body executes, Nil if it executes none.
C20_CallBindsParametersInOrder ==
    \A n \in 0 .. MaxArgs, returns \in Returns :
        statements = ProgBind(n, returns) =>
            /\ \A e \in 1 .. Len(history) : \A i \in 1 .. n :
                  (history[e].op = "define" /\ history[e].name = Params(n)[i]) =>
                      /\ history[e].v = Str(ToString(i))
                      /\ Len(history[e].before) = 2
                      /\ DOMAIN history[e].before[1] = {Params(n)[j] : j \in 1 .. i - 1}
            /\ Finished =>
                  /\ status = "done"
                  /\ stdout = ArgLines(1, n)
                                  \o (IF returns = "twice" THEN "r1" ELSE "nil") \o "\n"

\* C20 witness: f("1", "2", "3") wrote its three parameters and returned
\* the value of its first return
C20_Witness ==
    /\ statements = ProgBind(3, "twice")
    /\ status = "done"
    /\ stdout = "1\n2\n3\nr1\n"
    /\ \E e \in 1 .. Len(history) :
          /\ history[e].op = "define" /\ history[e].name = "p3"
          /\ history[e].v = Str("3")

\* whether the run is past the scanner and the parser
PastParsing == status \notin {"scanning", "parsing"}

\* the lines n statements println("ok") write
RECURSIVE OkOutput(_)
OkOutput(n) == IF n = 0 THEN "" ELSE "ok\n" \o OkOutput(n - 1)

\* C15: a run writes at most one diagnostic and ends with it; when the
\* scanner or the parser reports, nothing was executed; when top-level
\* statement k reports, statements 1 .. k-1 were executed and no later one,
\* and the errors in the rest of the text are not reported.
C15_FailFast ==
    /\ Len(stderr) <= 1
    /\ status \in {"exit1", "exit65"} => Len(stderr) = 1
    /\ environments = << >> => (history = << >> /\ stdout = "" /\ pc = 1)
    /\ \A n \in 0 .. MaxSpan, failure \in Failures :
          (source = FailSource(n, failure) /\ Finished) =>
              CASE failure = "scanner" ->
                      /\ status = "exit65"
                      /\ stderr = <<"unexpected character '@'">>
                      /\ statements = << >> /\ environments = << >>
                [] failure = "parser" ->
                      /\ status = "exit1"
                      /\ stderr = <<"expect variable name">>
                      /\ Len(statements) = n /\ environments = << >>
                [] failure = "runtime" ->
                      /\ status = "exit1"
                      /\ stderr = <<"cannot add">>
                      /\ stdout = OkOutput(n)
                      /\ pc = n + 1
                [] failure = "panic" -> status = "panic" /\ stdout = OkOutput(n)
                [] failure = "none" ->
                      status = "done" /\ stderr = << >> /\ stdout = OkOutput(n)

\* C15 witness: the third statement failed after two had written ok; the
\* parser failed in another run
C15_Witness ==
    \/ /\ source = FailSource(2, "runtime")
       /\ status = "exit1"
       /\ stdout = "ok\nok\n"
       /\ stderr = <<"cannot add">>
    \/ /\ source = FailSource(2, "parser")
       /\ status = "exit1"
       /\ stdout = ""

\* the token type of a compound assignment and of its operator
CompoundToken(op) ==
    CASE op = "+" -> "PlusEqual" [] op = "-" -> "MinusEqual" [] op = "*" -> "StarEqual"
      [] op = "/" -> "SlashEqual" [] op = "%" -> "PercentEqual"
OperatorToken(op) ==
    CASE op = "+" -> "Plus" [] op = "-" -> "Minus" [] op = "*" -> "Star"
      [] op = "/" -> "Slash" [] op = "%" -> "Percent"

\* C16: `x OP= 1 + 1` parses to Assign(x, Binary(Variable(x), OP=, 1 + 1)),
\* and after it x is the value of x OP (1 + 1).
C16_CompoundAssignmentDesugars ==
    \A x \in 6 .. 8, op \in CompoundOperators :
        source = CompoundSource(x, op) =>
            /\ PastParsing =>
                  statements =
                      << VarDecl("x", N(x)),
                         Expression(Assign("x", Binary(Variable("x"), CompoundToken(op),
                                                       Binary(N(1), "Plus", N(1))))),
                         println(Variable("x")) >>
            /\ Finished =>
                  /\ status = "done"
                  /\ stdout = Display(binary(St, Number(x), OperatorToken(op), Number(2)).v)
                                  \o "\n"

\* the tree of ForBody, and the tree the loop of ForSource is to become
ForBodyTree ==
    Block(<< Expression(Assign("i", Binary(Variable("i"), "Plus", N(1)))),
             If(Binary(Variable("i"), "GreaterEqual", N(3)),
                Block(<<Return(Literal(Nil))>>), NoStmt) >>)
ForTree(init, cond, incr) ==
    LET loop == While(IF cond THEN Binary(Variable("i"), "Less", N(3))
                      ELSE Literal(Bool(TRUE)),
                      IF incr
                      THEN Block(<<ForBodyTree,
                                   Expression(Assign("i", Binary(Variable("i"), "Plus",
                                                                 N(1))))>>)
                      ELSE ForBodyTree)
    IN  CASE init = "none" -> loop
          [] init = "var" -> Block(<<VarDecl("i", N(0)), loop>>)
          [] init = "expression" -> Block(<<Expression(Assign("i", N(0))), loop>>)

\* the statement list ForSource is to parse to
ForStatements(init, cond, incr) ==
    (IF init = "var" THEN << >> ELSE <<VarDecl("i", N(0))>>)
    \o <<ForTree(init, cond, incr), println(S("end"))>>

\* C17: `for (init; cond; incr) body` parses, to Block[init, While(cond,
\* Block[body, incr])]; no cond gives the literal true, no incr the bare
\* body, no init no outer Block; init may be a var declaration or an
\* expression statement.
C17_ForLoopDesugars ==
    \A init \in Clauses, cond \in BOOLEAN, incr \in BOOLEAN :
        (source = ForSource(TRUE, init, cond, incr) /\ PastParsing) =>
            statements = ForStatements(init, cond, incr)

\* the arguments of the call of CallSource
CallArguments(name) ==
    CASE name = "input" -> << >>
      [] name = "str" -> <<N(7)>>
      [] name = "int" -> <<S("7")>>
      [] OTHER -> <<S("a")>>

\* C18: when the first statement is about to run the global scope binds the
\* six native functions; a call of one by its name parses to a Call on a
\* Variable and the native function is run.
C18_NativesCallableByName ==
    /\ (status = "running" /\ pc = 1) =>
          \A name \in NativeNames :
              /\ name \in DOMAIN environments[Len(environments)]
              /\ environments[Len(environments)][name].t = "NativeFunction"
    /\ \A name \in NativeNames :
          source = CallSource(name) =>
              /\ PastParsing =>
                    statements = <<Expression(Call(Variable(name), CallArguments(name)))>>
              /\ Finished =>
                    \E e \in 1 .. Len(history) :
                        history[e].op = "native" /\ history[e].name = name

\* C21: a Block runs its statements in order in one new scope, empty when
\* the block starts and a child of the scope that was current; the names its
\* VarDecl and FunctionDecl define go into that scope; when the block is left,
\* at its end or by a return, the scope is gone: the name reads as the
\* enclosing chain bound it before the block, and is undefined if it did not.
C21_BlockScopeIsDiscarded ==
    \A name \in BlockNames, outer \in BOOLEAN, exit \in BlockExits :
        statements = ProgBlock(name, outer, exit) =>
            LET at == IF outer THEN 2 ELSE 1
            IN  /\ \A e \in 1 .. Len(history) :
                      (history[e].op = "define" /\ history[e].v # Str("out")) =>
                          /\ Len(history[e].before) = 2
                          /\ Len(history[e].after) = 2
                          /\ DOMAIN history[e].before[1] \subseteq BlockNames
                          /\ history[e].name = "h" => DOMAIN history[e].before[1] = {"y"}
                          /\ history[e].name = "y" => history[e].before[1] = NewEnvironment
                /\ pc > at =>
                      /\ Len(environments) = 1
                      /\ \A n \in BlockNames :
                            n \in DOMAIN environments[1] => (outer /\ n = name)
                      /\ outer => environments[1][name] = Str("out")
                /\ Finished =>
                      IF outer
                      THEN /\ status = "done"
                           /\ stdout = "1\nin\n" \o (IF exit = "return" THEN "" ELSE "2\n")
                                           \o "out\n"
                      ELSE /\ status = "exit1"
                           /\ stderr = <<"'" \o name \o "' is undefined">>
                           /\ stdout = "1\nin\n" \o (IF exit = "return" THEN "" ELSE "2\n")

\* C21 witness: a block that declared y and h was left by a return, and h
\* was undefined behind it; another was left at its end and the outer y read
C21_Witness ==
    \/ /\ statements = ProgBlock("h", FALSE, "return")
       /\ status = "exit1"
       /\ stdout = "1\nin\n"
       /\ stderr = <<"'h' is undefined">>
    \/ /\ statements = ProgBlock("y", TRUE, "normal")
       /\ status = "done"
       /\ stdout = "1\nin\n2\nout\n"

\* whether the operand evaluates to a Number
IsNumber(x) == x.e = "Literal" /\ x.value.t = "Number"

\* C22: a range loop of which a bound is Nil, a String, a Bool or a function
\* ends the run with the runtime error "range must be a number"; no scope was
\* made, the loop variable was not defined and the body did not run.  With
\* two Numbers there is no such error.
C22_RangeBoundsMustBeNumbers ==
    \A x \in Operands, y \in Operands :
        statements = ProgRangeOf(x, y) =>
            IF IsNumber(x) /\ IsNumber(y)
            THEN Finished =>
                    /\ status = "done"
                    /\ stdout = Repeat("body\n", y.value.num - x.value.num + 1) \o "after\n"
            ELSE /\ \A e \in 1 .. Len(history) :
                       /\ history[e].name # "i"
                       /\ Len(history[e].before) = 1
                       /\ Len(history[e].after) = 1
                 /\ Len(environments) = 1
                 /\ "i" \notin DOMAIN environments[1]
                 /\ stdout = ""
                 /\ Finished => (status = "exit1" /\ stderr = <<"range must be a number">>)

\* C22 witness: a loop from 1 to "a" ended the run with the error, and so
\* did a loop from nil to 2
C22_Witness ==
    /\ statements \in {ProgRangeOf(N(1), S("a")), ProgRangeOf(Literal(Nil), N(2))}
    /\ status = "exit1"
    /\ stderr = <<"range must be a number">>
    /\ stdout = ""

\* the integer at or below n/d, and the integer part of n/d (d > 0)
Floor(n, d) == n \div d
Trunc(n, d) == IF n >= 0 THEN n \div d ELSE -((-n) \div d)

\* the range loop over ha/2 .. hb/2 ran its body once for each integer i with
\* Whole(start) <= i < Whole(end + 1), in increasing order
RangeRunsFrom(Whole(_, _)) ==
    \A ha \in HalfStarts : \A hb \in HalfEnds(ha) :
        (Finished /\ statements = ProgRangeHalves(ha, hb))
            => /\ status = "done"
               /\ stdout = Lines(Whole(ha, 2), Whole(hb + 2, 2) - 1) \o "end\n"

Chomp(line) ==
    IF Len(line) > 0 /\ SubSeq(line, Len(line), Len(line)) = "\n"
    THEN SubSeq(line, 1, Len(line) - 1)
    ELSE line

\* C24: input_prompt(s) writes s and returns the line read without its
\* newline; a last line that has no newline is returned whole, and at the end
\* of the input the empty String is returned; the run goes on in each case.
C24_InputPromptStripsNewline ==
    [][(statements = ProgPrompt /\ status = "running" /\ pc = 1) =>
          /\ status' = "running"
          /\ pc' = 2
          /\ stdout' = "? "
          /\ stdin' = (IF stdin = << >> THEN << >> ELSE Tail(stdin))
          /\ environments'[1]["r"] = Str(Chomp(IF stdin = << >> THEN "" ELSE stdin[1]))]_vars

\* what println writes for a op b, a and b integers from 0 on: the f32
\* arithmetic, where x / 0 is inf, 0 / 0 and x % 0 are NaN
NumberText(operator, a, b) ==
    CASE operator = "Minus" -> ToString(a - b)
      [] operator = "Star" -> ToString(a * b)
      [] operator = "Slash" ->
            IF b = 0 THEN (IF a = 0 THEN "NaN" ELSE "inf") ELSE Display(Frac(a, b))
      [] operator = "Percent" -> IF b = 0 THEN "NaN" ELSE ToString(a % b)
      [] operator = "Greater" -> IF a > b THEN "true" ELSE "false"
      [] operator = "GreaterEqual" -> IF a >= b THEN "true" ELSE "false"
      [] operator = "Less" -> IF a < b THEN "true" ELSE "false"
      [] operator = "LessEqual" -> IF a <= b THEN "true" ELSE "false"

\* C25: - / * % > >= < <= end the run with the runtime error "operands must
\* be a number" exactly when an operand is not a Number; on two Numbers they
\* give the f32 result and no error, a zero divisor included.
C25_NumberOperatorsNeedNumbers ==
    \A operator \in NumberOperators : \A x \in NumberOperands, y \in NumberOperands :
        (Finished /\ statements = ProgNumbers(operator, x, y)) =>
            IF IsNumber(x) /\ IsNumber(y)
            THEN /\ status = "done"
                 /\ stderr = << >>
                 /\ stdout = NumberText(operator, x.value.num, y.value.num)
                                 \o "\n" \o "after\n"
            ELSE /\ status = "exit1"
                 /\ stderr = <<"operands must be a number">>
                 /\ stdout = ""

\* C25 witness: 1 / 0 wrote inf and the run went on; 1 < "a" ended another
\* run with the error
C25_Witness ==
    \/ /\ statements = ProgNumbers("Slash", N(1), N(0))
       /\ status = "done"
       /\ stdout = "inf\nafter\n"
    \/ /\ statements = ProgNumbers("Less", N(1), S("a"))
       /\ status = "exit1"
       /\ stderr = <<"operands must be a number">>

\* C26: a call evaluates its callee, then its arguments from left to right,
\* and only then looks at what the callee is and how many parameters it has:
\* when the call is refused ("can only call functions and classes", or the
\* wrong number of arguments) the callee and every argument have been
\* evaluated, in that order; the body of the function runs after them.
C26_CalleeThenArgumentsThenChecks ==
    \A callee \in Callees, n \in 0 .. MaxArgs :
        (Finished /\ statements = ProgCallOrder(callee, n)) =>
            IF callee = "nil"
            THEN /\ status = "exit1"
                 /\ stderr = <<"can only call functions and classes">>
                 /\ stdout = "callee\n" \o ArgLines(1, n)
            ELSE IF n # 1
            THEN /\ status = "exit1"
                 /\ stderr = <<"expected 1 arguments but got " \o ToString(n)>>
                 /\ stdout = "callee\n" \o ArgLines(1, n)
            ELSE /\ status = "done"
                 /\ stdout = "callee\n1\nbody\nafter\n"

\* C26 witness: three arguments were evaluated in order before the call of
\* nil was refused; two before the call of g was refused for their number
C26_Witness ==
    \/ /\ statements = ProgCallOrder("nil", 3)
       /\ status = "exit1"
       /\ stdout = "callee\n1\n2\n3\n"
       /\ stderr = <<"can only call functions and classes">>
    \/ /\ statements = ProgCallOrder("g", 2)
       /\ status = "exit1"
       /\ stdout = "callee\n1\n2\n"
       /\ stderr = <<"expected 1 arguments but got 2">>

\* C27: when a statement or a call has completed, normally or by a return,
\* the current scope is the one that was current when it began: between the
\* top-level statements of every program the stack is the global scope
\* alone, and in every nesting of Block, If, While, ForRange and calls a probe
\* behind a construct finds the scope stack as deep as the probe before it,
\* with the probe before it still in the innermost scope (the history of a
\* run that has ended holds every probe of the run).
C27_ScopeStackBalanced ==
    /\ status \in {"running", "done"} => (Len(environments) = 1 /\ index = 0)
    /\ \A kinds \in BalanceNestings, exit \in BlockExits :
          (Finished /\ statements = ProgBalance(kinds, exit)) =>
              \A i \in 0 .. Len(kinds) : \A e \in 1 .. Len(history) :
                  history[e].name = "b" \o ToString(i) =>
                      /\ "a" \o ToString(i) \in DOMAIN history[e].before[1]
                      /\ i = 0 => Len(history[e].before) = 1
                      /\ \A d \in 1 .. e :
                            history[d].name = "a" \o ToString(i) =>
                                Len(history[d].before) = Len(history[e].before)

\* C27 witness: a return left a block in a range loop in a function; the
\* probe behind the call ran in the scope of the probe before it
C27_Witness ==
    /\ statements = ProgBalance(<<"Call", "ForRange">>, "return")
    /\ status = "done"
    /\ stdout = "in\n"
    /\ \E e \in 1 .. Len(history) :
          /\ history[e].name = "b1"
          /\ Len(history[e].before) = 2
          /\ DOMAIN history[e].before[1] = {"a1", "h1"}

\* C28: a Return executed outside every call, as a top-level statement or in
\* a top-level block, ends at most that block; its value goes nowhere (no
\* scope operation, nothing written) and the top-level statements behind it
\* are executed in order, each once.
C28_TopLevelReturnIsDiscarded ==
    \A v \in Literals :
        statements = ProgTopReturn(v) =>
            /\ status \in {"running", "done"}
            /\ stderr = << >>
            /\ stdout = (CASE pc = 1 -> ""
                           [] pc \in {2, 3} -> "1\n"
                           [] pc = 4 -> "1\n2\n"
                           [] pc = 5 -> "1\n2\n3\n"
                           [] pc = 6 -> "1\n2\n3\n4\n")
            /\ environments = <<GlobalEnvironment>>
            /\ \A e \in 1 .. Len(history) :
                  history[e].name = "println" /\ history[e].op \in {"get", "native"}

\* C28 witness: the run ended normally behind two top-level returns of "a",
\* the four statements around them having written their lines
C28_Witness ==
    /\ statements = ProgTopReturn(Str("a"))
    /\ status = "done"
    /\ pc = 6
    /\ stdout = "1\n2\n3\n4\n"

\* the number of iterations of the loop from a to b
Iterations(a, b) == IF b < a THEN 0 ELSE b - a + 1

\* C29: the bounds of a range loop are evaluated once, before the first
\* iteration (lo and hi each write one line), and every iteration starts with
\* the loop variable set to the next integer: a body that assigns to the loop
\* variable or to the variables the bounds read changes neither the number of
\* iterations nor the value the loop variable has when an iteration starts.
\* The assignments themselves take effect: x and y end moved by 10 a turn.
C29_RangeBoundsFixedVariableReset ==
    \A a \in AssignStarts : \A b \in AssignEnds(a), targets \in AssignTargets :
        (Finished /\ statements = ProgRangeAssign(a, b, targets)) =>
            /\ status = "done"
            /\ stdout = "lo\nhi\n" \o Lines(a, b) \o "end\n"
            /\ environments[1]["x"]
                  = Number(a + (IF "x" \in targets THEN 10 * Iterations(a, b) ELSE 0))
            /\ environments[1]["y"]
                  = Number(b - (IF "y" \in targets THEN 10 * Iterations(a, b) ELSE 0))

\* C29 witness: the loop from 0 to 2 ran for 0, 1 and 2 while its body
\* added 10 to i and to x and took 10 from y
C29_Witness ==
    /\ statements = ProgRangeAssign(0, 2, {"i", "x", "y"})
    /\ status = "done"
    /\ stdout = "lo\nhi\n0\n1\n2\nend\n"
    /\ environments[1]["x"] = Number(30)
    /\ environments[1]["y"] = Number(-28)

\* the index of the EOF token, the last of the tokens
EofIndex == Len(parser.tokens) - 1

\* C30: Parser::parse terminates.  The cursor never passes the EOF token; a
\* declaration that returns Ok has moved the cursor forward by at least one
\* token and added one statement; a declaration that returns Err ends the
\* run there, with that one diagnostic; parse returns when the cursor is at
\* the EOF token; and a run that is parsing comes to stop parsing.
C30_ParseTerminates ==
    /\ [][status = "parsing" =>
            /\ parser'.tokens = parser.tokens
            /\ parser.current <= EofIndex
            /\ parser'.current <= EofIndex
            /\ status' \in {"parsing", "running", "exit1"}
            /\ status' = "parsing" =>
                  /\ parser'.current > parser.current
                  /\ Len(statements') = Len(statements) + 1
                  /\ stderr' = stderr
            /\ status' = "exit1" =>
                  /\ declaration(parser).k = "err"
                  /\ stderr' = <<declaration(parser).message>>
                  /\ statements' = statements
            /\ status' = "running" =>
                  /\ parser'.current = EofIndex
                  /\ statements' = statements
                  /\ stderr' = << >>]_vars
    /\ (status = "parsing") ~> (status \in {"running", "exit1"})

\* C30 witness: parse returned three statements with the cursor at the EOF
\* token; in another run it stopped at its first error behind two statements
C30_Witness ==
    \/ /\ status = "running"
       /\ pc = 1
       /\ Len(statements) = 3
       /\ parser.current = EofIndex
       /\ parser.current >= 3
    \/ /\ status = "exit1"
       /\ environments = << >>
       /\ Len(statements) = 2
       /\ parser.current < EofIndex

====
